---------------------------- MODULE Spec2Model ----------------------------
(* Model of the income Sankey compiler of apps/web/lib/income-sankey.ts:    *)
(* mergeIncomeSankeyTemplates, getPriorPeriod, the value resolvers and      *)
(* getIncomeSankey.                                                         *)
(*                                                                          *)
(* Conventions.                                                             *)
(*  - A JavaScript object is a TLA+ record whose DOMAIN is the set of keys  *)
(*    the object has; an optional field that is absent is absent from the   *)
(*    DOMAIN.  Object spread {...a, ...b} is Spread(a, b).                  *)
(*  - A value read from a pool is a cell [k, v]: k = "n" is the number v,   *)
(*    k = "NaN" is not-a-number, k = "u" is undefined (key not in the       *)
(*    object).  Fact values are whole numbers, so v is an integer.          *)
(*  - A string that the code parses is a sequence of one-character strings. *)
(*  - The `order` fields are the source's numbers times ten (5.3 is 53), so *)
(*    that they are integers; the comparison a.order - b.order is kept.     *)
(*  - An optional value (find, the prior period) is a sequence of length 0  *)
(*    or 1.                                                                 *)
EXTENDS Integers, Sequences, FiniteSets, TLC

VARIABLES
  pc,                           \* position inside getIncomeSankey
  companyFactsResponse,         \* argument: [periods |-> Seq(period)]
  periodId,                     \* argument
  incomeSankeyTemplateOverride, \* argument: <<>> (undefined) or <<template>>
  priorPeriod,                  \* <<>> (null) or <<period>>
  incomeSankeyTemplate,         \* merged template
  valuesByConceptSource,
  valuesByConceptTarget,
  valuesByConceptPriorSource,   \* meaningful only when priorPeriod # <<>>
  valuesByConceptPriorTarget,   \* meaningful only when priorPeriod # <<>>
  incomeSankeyNodes,
  nodeValues,
  nodes,                        \* output node list
  filteredLinks,
  mapped,                       \* result of filteredLinks.map so far
  links,                        \* output link list
  mT, mO, mOnce, mTwice,        \* mergeIncomeSankeyTemplates driver
  ppPeriods, ppId, ppResult,    \* getPriorPeriod driver
  moduleDefaultTemplate,        \* the module-level object defaultIncomeSankeyTemplate
  calls,                        \* the calls made so far: arguments and outcome
  ntNode, ntConcepts, ntValue,  \* node map callback driver: the node template,
  ntTitle                       \* the dataset's concepts, the value; the title

compileVars ==
  <<pc, companyFactsResponse, periodId, incomeSankeyTemplateOverride,
    priorPeriod, incomeSankeyTemplate, valuesByConceptSource,
    valuesByConceptTarget, valuesByConceptPriorSource,
    valuesByConceptPriorTarget, incomeSankeyNodes, nodeValues, nodes,
    filteredLinks, mapped, links>>
mergeVars == <<mT, mO, mOnce, mTwice>>
priorVars == <<ppPeriods, ppId, ppResult>>
moduleVars == <<moduleDefaultTemplate, calls>>
titleVars == <<ntNode, ntConcepts, ntValue, ntTitle>>
vars == <<compileVars, mergeVars, priorVars, moduleVars, titleVars>>

-----------------------------------------------------------------------------
(* JavaScript values                                                        *)

Num(n) == [k |-> "n", v |-> n]
NaN == [k |-> "NaN", v |-> 0]
Undefined == [k |-> "u", v |-> 0]

\* a + b on number | undefined operands
JsAdd(a, b) == IF a.k = "n" /\ b.k = "n" THEN Num(a.v + b.v) ELSE NaN
\* a - b
JsSub(a, b) == IF a.k = "n" /\ b.k = "n" THEN Num(a.v - b.v) ELSE NaN
\* -a
JsNeg(a) == IF a.k = "n" THEN Num(0 - a.v) ELSE NaN
\* a || 0 : 0, NaN and undefined are falsy
JsOrZero(a) == IF a.k = "n" /\ a.v # 0 THEN a ELSE Num(0)

Abs(n) == IF n < 0 THEN 0 - n ELSE n
\* a minimum that always takes its first argument
Min2_First(a, b) == a

Min2(a, b) == IF a <= b THEN a ELSE b

\* {...a, ...b}
\* a spread in which the fields of the first object win
Spread_FirstWins(a, b) ==
  [f \in (DOMAIN a) \cup (DOMAIN b) |-> IF f \in DOMAIN a THEN a[f] ELSE b[f]]

Spread(a, b) ==
  [f \in (DOMAIN a) \cup (DOMAIN b) |-> IF f \in DOMAIN b THEN b[f] ELSE a[f]]

\* Array.prototype.find as an optional value
Find(s, Test(_)) ==
  LET I == {i \in DOMAIN s : Test(s[i])}
  IN  IF I = {} THEN <<>>
      ELSE <<s[CHOOSE i \in I : \A j \in I : i <= j]>>

\* Array.prototype.some
Some(s, Test(_)) == \E i \in DOMAIN s : Test(s[i])

\* a sort that leaves the list as it was
SortByOrder_Unsorted(s) == s

\* [...s].sort((a, b) => a.order - b.order): stable, ascending by order
RECURSIVE SortByOrder(_)
SortByOrder(s) ==
  IF s = <<>> THEN <<>>
  ELSE LET n == Len(s)
           init == SortByOrder(SubSeq(s, 1, n - 1))
           x == s[n]
           keep == Cardinality({i \in DOMAIN init : init[i].order <= x.order})
       IN  SubSeq(init, 1, keep) \o <<x>> \o SubSeq(init, keep + 1, Len(init))

-----------------------------------------------------------------------------
(* Templates                                                                *)

Revenue == "us-gaap:RevenueFromContractWithCustomerExcludingAssessedTax"
Cash == "us-gaap:CashAndCashEquivalentsAtCarryingValue"
GrossProfit == "us-gaap:GrossProfit"
CostOfGoods == "us-gaap:CostOfGoodsAndServicesSold"
OperatingIncomeLoss == "us-gaap:OperatingIncomeLoss"
NetIncomeLoss == "us-gaap:NetIncomeLoss"
CostsAndExpenses == "us-gaap:CostsAndExpenses"
OperatingExpenses == "us-gaap:OperatingExpenses"
ResearchAndDevelopment == "us-gaap:ResearchAndDevelopmentExpense"
SellingGeneralAdmin == "us-gaap:SellingGeneralAndAdministrativeExpense"
Impairment == "us-gaap:ImpairmentOfLongLivedAssetsHeldForUse"
InterestExpense == "us-gaap:InterestExpenseNonoperating"
InvestmentIncomeInterest == "us-gaap:InvestmentIncomeInterest"
IncomeTax == "us-gaap:IncomeTaxExpenseBenefit"

\* IncomeSankeyNodeTag: a bare string, or an object {tag, action?}
StrTag(t) == [str |-> t]
ObjTag(t) == [tag |-> t]
ObjTagAction(t, a) == [tag |-> t, action |-> a]
IsString(tag) == "str" \in DOMAIN tag

defaultIncomeSankeyTemplate ==
  [nodes |-> <<
     [id |-> "revenue", order |-> 10, title |-> "Revenue", color |-> "blue",
      conceptTags |-> <<StrTag(Revenue)>>],
     [id |-> "bank-account", order |-> 20, title |-> "Bank Account",
      color |-> "grey", conceptTags |-> <<StrTag(Cash)>>,
      usePriorPeriod |-> TRUE, valueSource |-> "unlimited"],
     [id |-> "gross-profit", order |-> 30, title |-> "Gross Profit",
      titleWhenNegative |-> "Gross Loss", color |-> "green",
      colorWhenNegative |-> "red", conceptTags |-> <<StrTag(GrossProfit)>>],
     [id |-> "cost-of-goods-sold", order |-> 40,
      title |-> "Cost of Goods Sold", color |-> "red",
      conceptTags |-> <<StrTag(CostOfGoods)>>],
     [id |-> "operating-profit", order |-> 50, title |-> "Operating Profit",
      titleWhenNegative |-> "Operating Loss", color |-> "green",
      colorWhenNegative |-> "red",
      conceptTags |-> <<StrTag(OperatingIncomeLoss)>>, tags |-> <<"EBIT">>],
     [id |-> "net-profit", order |-> 60, title |-> "Net Profit",
      titleWhenNegative |-> "Net Loss", color |-> "green",
      colorWhenNegative |-> "red",
      conceptTags |-> <<StrTag(NetIncomeLoss)>>, tags |-> <<"EAT">>],
     [id |-> "operating-expenses", order |-> 70,
      title |-> "Operating Expenses", color |-> "red",
      conceptTags |-> <<StrTag(CostsAndExpenses), StrTag(OperatingExpenses)>>],
     [id |-> "research-and-development", order |-> 80,
      title |-> "Research and Development", color |-> "red",
      conceptTags |-> <<StrTag(ResearchAndDevelopment)>>,
      tags |-> <<"operating-expense-component">>],
     [id |-> "selling-general-and-administrative", order |-> 90,
      title |-> "Selling, General and Administrative", color |-> "red",
      conceptTags |-> <<StrTag(SellingGeneralAdmin)>>,
      tags |-> <<"operating-expense-component">>],
     [id |-> "impairment-of-long-lived-assets", order |-> 100,
      title |-> "Other Expenses", color |-> "red",
      conceptTags |-> <<StrTag(Impairment)>>,
      tags |-> <<"operating-expense-component">>],
     [id |-> "interest", order |-> 110, title |-> "Interest", color |-> "red",
      conceptTags |-> <<StrTag(InterestExpense),
                        ObjTagAction(InvestmentIncomeInterest, "subtract")>>],
     [id |-> "tax", order |-> 120, title |-> "Tax", color |-> "red",
      conceptTags |-> <<StrTag(IncomeTax)>>] >>,
   links |-> <<
     [source |-> "revenue", target |-> "cost-of-goods-sold", order |-> 10],
     [source |-> "bank-account", target |-> "cost-of-goods-sold",
      condition |-> [type |-> "negative", concept |-> "gross-profit"],
      order |-> 20],
     [source |-> "revenue", target |-> "gross-profit", order |-> 30],
     [source |-> "cost-of-goods-sold", target |-> "gross-profit", order |-> 40,
      condition |-> [type |-> "negative", concept |-> "gross-profit"]],
     [source |-> "gross-profit", target |-> "operating-expenses",
      type |-> "research-and-development",
      condition |-> [type |-> "positive", concept |-> "gross-profit"],
      order |-> 50],
     [source |-> "gross-profit", target |-> "operating-expenses",
      type |-> "selling-general-and-administrative",
      condition |-> [type |-> "positive", concept |-> "gross-profit"],
      order |-> 53],
     [source |-> "gross-profit", target |-> "operating-expenses",
      type |-> "impairment-of-long-lived-assets",
      condition |-> [type |-> "positive", concept |-> "gross-profit"],
      order |-> 56],
     [source |-> "gross-profit", target |-> "operating-profit",
      condition |-> [type |-> "positive", concept |-> "operating-profit"],
      order |-> 60],
     [source |-> "gross-profit", target |-> "operating-profit",
      condition |-> [type |-> "negative", concept |-> "gross-profit"],
      order |-> 60],
     [source |-> "bank-account", target |-> "operating-expenses",
      type |-> "research-and-development", order |-> 80,
      condition |-> [type |-> "negative", concept |-> "gross-profit"]],
     [source |-> "bank-account", target |-> "operating-expenses",
      type |-> "selling-general-and-administrative", order |-> 83,
      condition |-> [type |-> "negative", concept |-> "gross-profit"]],
     [source |-> "bank-account", target |-> "operating-expenses",
      type |-> "impairment-of-long-lived-assets", order |-> 86,
      condition |-> [type |-> "negative", concept |-> "gross-profit"]],
     [source |-> "operating-expenses", target |-> "operating-profit",
      order |-> 105,
      condition |-> [type |-> "negative", concept |-> "operating-profit"]],
     [source |-> "operating-profit", target |-> "interest",
      condition |-> [type |-> "positive", concept |-> "operating-profit"],
      order |-> 120],
     [source |-> "interest", target |-> "net-profit",
      condition |-> [type |-> "negative", concept |-> "operating-profit"],
      order |-> 120],
     [source |-> "bank-account", target |-> "interest",
      condition |-> [type |-> "negative", concept |-> "operating-profit"],
      order |-> 130],
     [source |-> "operating-profit", target |-> "tax",
      condition |-> [type |-> "positive", concept |-> "operating-profit"],
      order |-> 140],
     [source |-> "bank-account", target |-> "tax",
      condition |-> [type |-> "negative", concept |-> "operating-profit"],
      order |-> 150],
     [source |-> "tax", target |-> "net-profit",
      condition |-> [type |-> "negative", concept |-> "operating-profit"],
      order |-> 120],
     [source |-> "operating-profit", target |-> "net-profit", order |-> 160,
      condition |-> [type |-> "positive", concept |-> "operating-profit"]] >>]

linkKey(link) == <<link.source, "|", link.target>>

\* Map.prototype.set on an insertion-ordered map kept as a sequence of
\* [key, value]: an existing key keeps its position, a new key is appended.
\* a map that keeps a second entry for a key it already holds
MapSet_AlwaysAppend(m, key, value) ==
  Append(m, [key |-> key, value |-> value])

MapSet(m, key, value) ==
  IF \E i \in DOMAIN m : m[i].key = key
  THEN [i \in DOMAIN m |->
          IF m[i].key = key THEN [key |-> key, value |-> value] ELSE m[i]]
  ELSE Append(m, [key |-> key, value |-> value])

MapGet(m, key) == Find(m, LAMBDA e : e.key = key)
MapValues(m) == [i \in DOMAIN m |-> m[i].value]

\* the (key, element) pairs a loop over xs hands to the map
Keyed(xs, Key(_)) == [i \in DOMAIN xs |-> [key |-> Key(xs[i]), value |-> xs[i]]]

\* for (const x of defaultTemplate.xs) map.set(key(x), { ...x })
RECURSIVE SetAll(_, _)
SetAll(m, es) ==
  IF es = <<>> THEN m
  ELSE SetAll(MapSet(m, Head(es).key, Head(es).value), Tail(es))

\* for (const x of overrideTemplate.xs)
\*   map.set(key(x), existing ? { ...existing, ...x } : { ...x })
RECURSIVE OverlayAll(_, _)
OverlayAll(m, es) ==
  IF es = <<>> THEN m
  ELSE LET e == Head(es)
           existing == MapGet(m, e.key)
           merged == IF existing # <<>> THEN Spread(existing[1].value, e.value)
                     ELSE e.value
       IN  OverlayAll(MapSet(m, e.key, merged), Tail(es))

nodeKey(node) == node.id

\* overrideTemplate is <<>> (undefined) or <<template>>
mergeIncomeSankeyTemplates(defaultTemplate, overrideTemplate) ==
  IF overrideTemplate = <<>>
  THEN [nodes |-> SortByOrder(defaultTemplate.nodes),
        links |-> SortByOrder(defaultTemplate.links)]
  ELSE LET o == overrideTemplate[1]
           nodeMap == OverlayAll(SetAll(<<>>, Keyed(defaultTemplate.nodes, nodeKey)),
                                 Keyed(o.nodes, nodeKey))
           linkMap == OverlayAll(SetAll(<<>>, Keyed(defaultTemplate.links, linkKey)),
                                 Keyed(o.links, linkKey))
       IN  [nodes |-> SortByOrder(MapValues(nodeMap)),
            links |-> SortByOrder(MapValues(linkMap))]

-----------------------------------------------------------------------------
(* Fact index                                                               *)

Digits == {"0", "1", "2", "3", "4", "5", "6", "7", "8", "9"}
DigitValue(c) ==
  CASE c = "0" -> 0 [] c = "1" -> 1 [] c = "2" -> 2 [] c = "3" -> 3
    [] c = "4" -> 4 [] c = "5" -> 5 [] c = "6" -> 6 [] c = "7" -> 7
    [] c = "8" -> 8 [] c = "9" -> 9

\* value of the longest prefix of digits of s, read after the digits `acc`
RECURSIVE DigitPrefix(_, _, _)
DigitPrefix(s, acc, seen) ==
  IF s # <<>> /\ Head(s) \in Digits
  THEN DigitPrefix(Tail(s), 10 * acc + DigitValue(Head(s)), TRUE)
  ELSE [value |-> acc, seen |-> seen]

\* a parser that reads a string without digits as 0
ParseFloat_UnparsableIsZero(s) ==
  LET signed == s # <<>> /\ Head(s) \in {"-", "+"}
      body == IF signed THEN Tail(s) ELSE s
      d == DigitPrefix(body, 0, FALSE)
  IN  IF signed /\ Head(s) = "-" THEN Num(0 - d.value) ELSE Num(d.value)

\* Number.parseFloat on a string of sign and digit characters: an optional
\* sign, then the longest run of digits; what follows is ignored; NaN when
\* there is no digit.
ParseFloat(s) ==
  LET signed == s # <<>> /\ Head(s) \in {"-", "+"}
      body == IF signed THEN Tail(s) ELSE s
      d == DigitPrefix(body, 0, FALSE)
  IN  IF ~d.seen THEN NaN
      ELSE IF signed /\ Head(s) = "-" THEN Num(0 - d.value)
      ELSE Num(d.value)

\* {} : an object without keys.  A pool is a function from the keys it has
\* to numbers (cells of kind "n" or "NaN").
EmptyPool == <<>>

\* values[tag]: undefined when the object has no such key
Get(values, tag) == IF tag \in DOMAIN values THEN values[tag] ELSE Undefined

\* values[tag] = x
Put(values, tag, x) ==
  [t \in (DOMAIN values) \cup {tag} |-> IF t = tag THEN x ELSE values[t]]

\* facts.reduce((acc, fact) => { acc[fact.concept] = parseFloat(fact.value);
\*                               return acc }, {})
RECURSIVE FactIndex(_, _)
FactIndex(acc, facts) ==
  IF facts = <<>> THEN acc
  ELSE FactIndex(Put(acc, Head(facts).concept, ParseFloat(Head(facts).value)),
                 Tail(facts))

\* new Date(end_date).getTime() for the ISO dates the datasets use, in days
\* relative to 2023-12-31
DateGetTime(d) ==
  CASE d = "2022-12-31" -> 0 - 365
    [] d = "2023-09-30" -> 0 - 92
    [] d = "2023-12-31" -> 0
    [] d = "2024-12-31" -> 366

\* [...periods].sort((a, b) => Date(b.end_date) - Date(a.end_date)): stable,
\* descending by end date
RECURSIVE SortByEndDateDesc(_)
SortByEndDateDesc(s) ==
  IF s = <<>> THEN <<>>
  ELSE LET n == Len(s)
           init == SortByEndDateDesc(SubSeq(s, 1, n - 1))
           x == s[n]
           keep == Cardinality({i \in DOMAIN init :
                      DateGetTime(init[i].end_date) >= DateGetTime(x.end_date)})
       IN  SubSeq(init, 1, keep) \o <<x>> \o SubSeq(init, keep + 1, Len(init))

\* findIndex: 0 stands for -1 (sequences are 1-based)
FindIndex(s, Test(_)) ==
  LET I == {i \in DOMAIN s : Test(s[i])}
  IN  IF I = {} THEN 0 ELSE CHOOSE i \in I : \A j \in I : i <= j

getPriorPeriod(periods, id) ==
  LET sorted == SortByEndDateDesc(periods)
      idx == FindIndex(sorted, LAMBDA p : p.id = id)
  IN  IF idx >= 1 /\ idx < Len(sorted) THEN <<sorted[idx + 1]>> ELSE <<>>

-----------------------------------------------------------------------------
(* Value resolver                                                           *)

\* find the node template a link's `type` names; a link without type (or no
\* link at all, given as <<>>) finds none
TypeNode(template, link) ==
  IF link = <<>> \/ "type" \notin DOMAIN link[1] THEN <<>>
  ELSE Find(template.nodes, LAMBDA n : n.id = link[1].type)

\* node is <<>> (undefined) or <<node>>
getConceptTags(template, node, link) ==
  LET linkNode == TypeNode(template, <<link>>)
  IN  IF linkNode # <<>> THEN linkNode[1].conceptTags
      ELSE IF node # <<>> THEN node[1].conceptTags
      ELSE <<>>

\* one step of the reduce callback shared by getConceptTagsValue and
\* getNodeValue
\*   string: acc + values[tag] || 0
\*   object: acc + (tag.action === "add" ? values[tag.tag]
\*                                       : -values[tag.tag] || 0)
ReduceStep(acc, tag, values) ==
  IF IsString(tag)
  THEN JsOrZero(JsAdd(acc, Get(values, tag.str)))
  ELSE JsAdd(acc,
             IF "action" \in DOMAIN tag /\ tag.action = "add"
             THEN Get(values, tag.tag)
             ELSE JsOrZero(JsNeg(Get(values, tag.tag))))

RECURSIVE Reduce(_, _, _)
Reduce(acc, tags, values) ==
  IF tags = <<>> THEN acc
  ELSE Reduce(ReduceStep(acc, Head(tags), values), Tail(tags), values)

\* hasPrior tells whether valuesByConceptPrior is defined
getConceptTagsValue(conceptTags, usePrior, values, hasPrior, valuesPrior) ==
  LET vals == IF usePrior /\ hasPrior THEN valuesPrior ELSE values
  IN  JsOrZero(Reduce(Num(0), conceptTags, vals)).v

UsesPrior(node) == "usePriorPeriod" \in DOMAIN node /\ node.usePriorPeriod

\* a resolver that reads a node marked usePriorPeriod from the prior pool
\* whether or not a prior period exists
getNodeValue_PriorPoolOnly(template, node, link, values, hasPrior, valuesPrior) ==
  IF node = <<>> THEN 0
  ELSE LET linkNode == TypeNode(template, link)
           n == IF linkNode # <<>> THEN linkNode[1] ELSE node[1]
           vals == IF UsesPrior(n) THEN valuesPrior ELSE values
       IN  JsOrZero(Reduce(Num(0), n.conceptTags, vals)).v

\* a resolver for which a node that is not there counts 1
getNodeValue_AbsentCountsOne(template, node, link, values, hasPrior, valuesPrior) ==
  IF node = <<>> THEN 1
  ELSE LET linkNode == TypeNode(template, link)
           n == IF linkNode # <<>> THEN linkNode[1] ELSE node[1]
           vals == IF UsesPrior(n) /\ hasPrior THEN valuesPrior ELSE values
       IN  JsOrZero(Reduce(Num(0), n.conceptTags, vals)).v

RECURSIVE getNodeValue(_, _, _, _, _, _)
getNodeValue(template, node, link, values, hasPrior, valuesPrior) ==
  IF node = <<>> THEN 0
  ELSE LET vals == IF UsesPrior(node[1]) /\ hasPrior THEN valuesPrior ELSE values
           linkNode == TypeNode(template, link)
       IN  IF linkNode # <<>>
           THEN getNodeValue(template, linkNode, <<>>, values, hasPrior, valuesPrior)
           ELSE JsOrZero(Reduce(Num(0), node[1].conceptTags, vals)).v

getAbsoluteNodeValue(template, node, link, values, hasPrior, valuesPrior) ==
  Abs(getNodeValue(template, node, link, values, hasPrior, valuesPrior))

\* tags.forEach: string or action "add" debits, anything else credits
AdjustStep(pool, t, value) ==
  IF IsString(t)
  THEN Put(pool, t.str, JsSub(Get(pool, t.str), Num(value)))
  ELSE IF "action" \in DOMAIN t /\ t.action = "add"
       THEN Put(pool, t.tag, JsSub(Get(pool, t.tag), Num(value)))
       ELSE Put(pool, t.tag, JsAdd(Get(pool, t.tag), Num(value)))

\* a deduction that leaves the pool as it is
adjustConceptValues_NoDeduction(tags, value, pool) == pool

RECURSIVE adjustConceptValues(_, _, _)
adjustConceptValues(tags, value, pool) ==
  IF tags = <<>> THEN pool
  ELSE adjustConceptValues(Tail(tags), value, AdjustStep(pool, Head(tags), value))

getNodeColor(node, value) ==
  IF value < 0 /\ "colorWhenNegative" \in DOMAIN node
  THEN <<node.colorWhenNegative>>
  ELSE IF "color" \in DOMAIN node THEN <<node.color>> ELSE <<>>

-----------------------------------------------------------------------------
(* Inputs                                                                   *)

\* a period reports at most MaxFacts concepts
MaxFacts == 3

\* the fact value strings of the datasets: two amounts and a loss
FactValues == {<<"1">>, <<"2">>, <<"-", "1">>}

\* the concepts the datasets report, in the order a period lists them
TagOrder ==
  <<Revenue, CostOfGoods, GrossProfit, CostsAndExpenses, OperatingExpenses,
    ResearchAndDevelopment, OperatingIncomeLoss, InterestExpense,
    InvestmentIncomeInterest, Cash>>

TagSets ==
  {S \in SUBSET {TagOrder[i] : i \in DOMAIN TagOrder} : Cardinality(S) <= MaxFacts}

\* the facts of a period that reports exactly the concepts of DOMAIN f
FactList(f) ==
  LET present == SelectSeq(TagOrder, LAMBDA t : t \in DOMAIN f)
  IN  [i \in DOMAIN present |-> [concept |-> present[i], value |-> f[present[i]]]]

CurrentPeriod(facts) ==
  [id |-> "2023-FY", end_date |-> "2023-12-31", facts |-> facts]

\* the other periods a dataset may hold next to the 2023 one
OtherPeriods ==
  {<<>>,
   <<[id |-> "2022-FY", end_date |-> "2022-12-31",
      facts |-> <<[concept |-> Cash, value |-> <<"2">>]>>]>>}

\* the period ids a caller asks for
PeriodIds == {"2023-FY", "2022-FY"}

\* an override that exchanges the order of the two links leaving "revenue"
SwapOverride ==
  [nodes |-> <<>>,
   links |-> <<[source |-> "revenue", target |-> "cost-of-goods-sold",
                order |-> 30],
               [source |-> "revenue", target |-> "gross-profit",
                order |-> 10]>>]

\* the override templates a caller passes: none, one that redefines the
\* contributions of "interest" with object tags, gives "operating-expenses" a
\* second outgoing link and adds a link whose condition names no node, or
\* the one that exchanges the order of the links of "revenue"
OverrideTemplates ==
  {<<>>,
   <<SwapOverride>>,
   <<[nodes |-> <<[id |-> "interest",
                   conceptTags |-> <<ObjTagAction(InterestExpense, "add"),
                                     ObjTag(InvestmentIncomeInterest)>>]>>,
      links |-> <<[source |-> "operating-expenses", target |-> "interest",
                   order |-> 106],
                  [source |-> "revenue", target |-> "interest", order |-> 107,
                   condition |-> [type |-> "negative", concept |-> "no-such-node"]]
                >>]>>}

\* mergeIncomeSankeyTemplates(defaultIncomeSankeyTemplate, override) of line
\* 623, tabulated over the overrides
MergedTemplate ==
  [o \in OverrideTemplates |->
     mergeIncomeSankeyTemplates(defaultIncomeSankeyTemplate, o)]

-----------------------------------------------------------------------------
(* getIncomeSankey                                                          *)

\* What getPriorPeriod leaves in the caller's period list: line 605 sorts
\* the copy [...periods], the list itself keeps its order.
PeriodsAfterGetPriorPeriod_InPlace(periods) == SortByEndDateDesc(periods)

PeriodsAfterGetPriorPeriod(periods) == periods

\* What mergeIncomeSankeyTemplates leaves in its first argument: lines
\* 406-407 sort the copies [...defaultTemplate.nodes] and
\* [...defaultTemplate.links], lines 413 and 423 store the copies { ...node }
\* and { ...link } in the maps, and the overrides of lines 417 and 428 build
\* new objects; the template passed in is not written.
DefaultTemplateAfterMerge_InPlace(defaultTemplate, overrideTemplate) ==
  mergeIncomeSankeyTemplates(defaultTemplate, overrideTemplate)

DefaultTemplateAfterMerge(defaultTemplate, overrideTemplate) == defaultTemplate

\* a lookup that takes the first period of the dataset whatever its id
FindPeriod_AnyPeriod ==
  IF companyFactsResponse.periods = <<>> THEN <<>>
  ELSE <<companyFactsResponse.periods[1]>>

FindPeriod == Find(companyFactsResponse.periods, LAMBDA p : p.id = periodId)

HasPrior == priorPeriod # <<>>

\* the four pools as one value
Pools ==
  [source |-> valuesByConceptSource, target |-> valuesByConceptTarget,
   priorSource |-> valuesByConceptPriorSource,
   priorTarget |-> valuesByConceptPriorTarget]

\* lines 628-661: the pools of a period and its prior period (<<>> or <<p>>)
InitialPools(period, prior) ==
  [source |-> FactIndex(EmptyPool, period.facts),
   target |-> FactIndex(EmptyPool, period.facts),
   priorSource |-> IF prior # <<>> THEN FactIndex(EmptyPool, prior[1].facts)
                   ELSE EmptyPool,
   priorTarget |-> IF prior # <<>> THEN FactIndex(EmptyPool, prior[1].facts)
                   ELSE EmptyPool]

\* the value pass of lines 662-682: a node's value read from the source pools
NodeValue(template, n, hasPrior, pools) ==
  getNodeValue(template, <<n>>, <<>>, pools.source, hasPrior, pools.priorSource)

\* lines 617-621: the period is not in the dataset
Throw ==
  /\ pc = "start"
  /\ FindPeriod = <<>>
  /\ pc' = "thrown"
  /\ UNCHANGED <<companyFactsResponse, periodId, incomeSankeyTemplateOverride,
                 priorPeriod, incomeSankeyTemplate, valuesByConceptSource,
                 valuesByConceptTarget, valuesByConceptPriorSource,
                 valuesByConceptPriorTarget, incomeSankeyNodes, nodeValues,
                 nodes, filteredLinks, mapped, links>>
  /\ UNCHANGED <<mergeVars, priorVars, moduleVars, titleVars>>

\* lines 617-661: period lookup, prior period, merged template, the four pools
BuildIndex ==
  /\ pc = "start"
  /\ FindPeriod # <<>>
  /\ priorPeriod' = getPriorPeriod(companyFactsResponse.periods, periodId)
  /\ companyFactsResponse' =
       [companyFactsResponse EXCEPT !.periods = PeriodsAfterGetPriorPeriod(@)]
  /\ incomeSankeyTemplate' =
       IF moduleDefaultTemplate = defaultIncomeSankeyTemplate
       THEN MergedTemplate[incomeSankeyTemplateOverride]
       ELSE mergeIncomeSankeyTemplates(moduleDefaultTemplate,
                                       incomeSankeyTemplateOverride)
  /\ moduleDefaultTemplate' =
       DefaultTemplateAfterMerge(moduleDefaultTemplate,
                                 incomeSankeyTemplateOverride)
  /\ LET p == InitialPools(FindPeriod[1], priorPeriod')
     IN  /\ valuesByConceptSource' = p.source
         /\ valuesByConceptTarget' = p.target
         /\ valuesByConceptPriorSource' = p.priorSource
         /\ valuesByConceptPriorTarget' = p.priorTarget
  /\ pc' = "nodes"
  /\ UNCHANGED <<periodId, incomeSankeyTemplateOverride,
                 incomeSankeyNodes, nodeValues, nodes, filteredLinks, mapped,
                 links>>
  /\ UNCHANGED <<mergeVars, priorVars, calls, titleVars>>

\* lines 662-672: the node templates whose absolute value is not 0
KeptNodes(template, hasPrior, pools) ==
  SelectSeq(template.nodes,
            LAMBDA n : Abs(NodeValue(template, n, hasPrior, pools)) # 0)

\* lines 683-693: the output record of each kept node
RECURSIVE EmitNodes(_, _, _, _)
EmitNodes(template, ns, hasPrior, pools) ==
  IF ns = <<>> THEN <<>>
  ELSE LET n == Head(ns)
           value == NodeValue(template, n, hasPrior, pools)
       IN  <<[id |-> n.id, color |-> getNodeColor(n, value), value |-> value]>>
           \o EmitNodes(template, Tail(ns), hasPrior, pools)

\* lines 673-682: nodeValues[n.id] = value, a later node of the same id
\* overwriting an earlier one
NodeValuesOf(out) ==
  [id \in {out[i].id : i \in DOMAIN out} |->
     out[CHOOSE j \in DOMAIN out :
           out[j].id = id /\ \A k \in DOMAIN out : out[k].id = id => k <= j].value]

\* lines 694-701: the endpoint filter, given the emitted nodes
LinkPasses(l, ns) ==
  /\ Some(ns, LAMBDA n : IF "type" \in DOMAIN l THEN n.id = l.type
                         ELSE n.id = l.source)
  /\ Some(ns, LAMBDA n : n.id = l.target)

\* lines 662-701: zero-value filter, node values, output nodes, link filter
ResolveNodes ==
  /\ pc = "nodes"
  /\ incomeSankeyNodes' = KeptNodes(incomeSankeyTemplate, HasPrior, Pools)
  /\ nodes' = EmitNodes(incomeSankeyTemplate, incomeSankeyNodes', HasPrior, Pools)
  /\ nodeValues' = NodeValuesOf(nodes')
  /\ filteredLinks' = SelectSeq(incomeSankeyTemplate.links,
                                LAMBDA l : LinkPasses(l, nodes'))
  /\ mapped' = <<>>
  /\ pc' = "links"
  /\ UNCHANGED <<companyFactsResponse, periodId, incomeSankeyTemplateOverride,
                 priorPeriod, incomeSankeyTemplate, valuesByConceptSource,
                 valuesByConceptTarget, valuesByConceptPriorSource,
                 valuesByConceptPriorTarget, links>>
  /\ UNCHANGED <<mergeVars, priorVars, moduleVars, titleVars>>

Null == [null |-> TRUE]

IsUnlimited(node) ==
  "valueSource" \in DOMAIN node /\ node.valueSource = "unlimited"

\* What one call of the map callback (lines 703-773) computes for link l:
\* kept is incomeSankeyNodes, pools the four pools before the call.  The
\* result holds the locals of the callback, the pools after it and the
\* callback's return value `out`.
LinkStep(template, kept, hasPrior, pools, l) ==
  LET sourceNode == Find(kept, LAMBDA n : n.id = l.source)
      targetNode == Find(kept, LAMBDA n : n.id = l.target)
      sourceConceptTags == getConceptTags(template, sourceNode, l)
      sourceValue ==
        getConceptTagsValue(sourceConceptTags,
                            sourceNode # <<>> /\ UsesPrior(sourceNode[1]),
                            pools.source, hasPrior, pools.priorSource)
      absSourceValue == Abs(sourceValue)
      targetConceptTags == getConceptTags(template, targetNode, l)
      targetValue ==
        getConceptTagsValue(targetConceptTags,
                            targetNode # <<>> /\ UsesPrior(targetNode[1]),
                            pools.target, hasPrior, pools.priorTarget)
      absTargetValue == Abs(targetValue)
      conditionValue ==
        getNodeValue(template,
                     IF "condition" \in DOMAIN l
                     THEN Find(kept, LAMBDA n : n.id = l.condition.concept)
                     ELSE <<>>,
                     <<>>, pools.source, hasPrior, pools.priorSource)
      dropped ==
        /\ "condition" \in DOMAIN l
        /\ \/ l.condition.type = "positive" /\ conditionValue <= 0
           \/ l.condition.type = "negative" /\ conditionValue > 0
      unlimited == sourceNode # <<>> /\ IsUnlimited(sourceNode[1])
      value == IF unlimited THEN absTargetValue
               ELSE Min2(absSourceValue, absTargetValue)
      adjustSource == ~dropped /\ value # 0 /\ sourceNode # <<>> /\ ~unlimited
      adjustTarget == ~dropped /\ value # 0 /\ targetNode # <<>>
      sourcePrior == adjustSource /\ UsesPrior(sourceNode[1]) /\ hasPrior
      targetPrior == adjustTarget /\ UsesPrior(targetNode[1]) /\ hasPrior
  IN  [dropped |-> dropped,
       value |-> value,
       absSourceValue |-> absSourceValue,
       absTargetValue |-> absTargetValue,
       conditionValue |-> conditionValue,
       unlimited |-> unlimited,
       sourceConceptTags |-> sourceConceptTags,
       targetConceptTags |-> targetConceptTags,
       pools |->
         [source |->
            IF adjustSource /\ ~sourcePrior
            THEN adjustConceptValues(sourceConceptTags, value, pools.source)
            ELSE pools.source,
          priorSource |->
            IF sourcePrior
            THEN adjustConceptValues(sourceConceptTags, value, pools.priorSource)
            ELSE pools.priorSource,
          target |->
            IF adjustTarget /\ ~targetPrior
            THEN adjustConceptValues(targetConceptTags, value, pools.target)
            ELSE pools.target,
          priorTarget |->
            IF targetPrior
            THEN adjustConceptValues(targetConceptTags, value, pools.priorTarget)
            ELSE pools.priorTarget],
       out |->
         IF dropped THEN Null
         ELSE IF "type" \in DOMAIN l
              THEN [source |-> l.source, target |-> l.target, value |-> value,
                    color |-> "black", type |-> l.type]
              ELSE [source |-> l.source, target |-> l.target, value |-> value,
                    color |-> "black"]]

\* the link the map callback is called with next
NextLink == filteredLinks[Len(mapped) + 1]

\* the callback's computation on the current state
ThisStep ==
  LinkStep(incomeSankeyTemplate, incomeSankeyNodes, HasPrior, Pools, NextLink)

\* a callback for which the source-side pool and the target-side pool of the
\* current period are one object: what is deducted from the target is
\* deducted from the source-side pool too
ProcessLink_SharedPools ==
  /\ pc = "links"
  /\ Len(mapped) < Len(filteredLinks)
  /\ LET r == ThisStep
     IN  /\ mapped' = Append(mapped, r.out)
         /\ valuesByConceptSource' =
              IF r.pools.target = valuesByConceptTarget THEN r.pools.source
              ELSE adjustConceptValues(r.targetConceptTags, r.value,
                                       r.pools.source)
         /\ valuesByConceptPriorSource' = r.pools.priorSource
         /\ valuesByConceptTarget' = r.pools.target
         /\ valuesByConceptPriorTarget' = r.pools.priorTarget
  /\ UNCHANGED <<pc, companyFactsResponse, periodId,
                 incomeSankeyTemplateOverride, priorPeriod,
                 incomeSankeyTemplate, incomeSankeyNodes, nodeValues, nodes,
                 filteredLinks, links>>
  /\ UNCHANGED <<mergeVars, priorVars, moduleVars, titleVars>>

\* lines 702-773: one call of the map callback
ProcessLink ==
  /\ pc = "links"
  /\ Len(mapped) < Len(filteredLinks)
  /\ LET r == ThisStep
     IN  /\ mapped' = Append(mapped, r.out)
         /\ valuesByConceptSource' = r.pools.source
         /\ valuesByConceptPriorSource' = r.pools.priorSource
         /\ valuesByConceptTarget' = r.pools.target
         /\ valuesByConceptPriorTarget' = r.pools.priorTarget
  /\ UNCHANGED <<pc, companyFactsResponse, periodId,
                 incomeSankeyTemplateOverride, priorPeriod,
                 incomeSankeyTemplate, incomeSankeyNodes, nodeValues, nodes,
                 filteredLinks, links>>
  /\ UNCHANGED <<mergeVars, priorVars, moduleVars, titleVars>>

\* a filter that also drops the records whose value is 0
NotNull_NorZero(x) == x # Null /\ x.value # 0

\* line 774: the test of the final filter, x != null
NotNull(x) == x # Null

\* lines 774-775: drop the nulls and return { nodes, links }
Return ==
  /\ pc = "links"
  /\ Len(mapped) = Len(filteredLinks)
  /\ links' = SelectSeq(mapped, NotNull)
  /\ pc' = "done"
  /\ UNCHANGED <<companyFactsResponse, periodId, incomeSankeyTemplateOverride,
                 priorPeriod, incomeSankeyTemplate, valuesByConceptSource,
                 valuesByConceptTarget, valuesByConceptPriorSource,
                 valuesByConceptPriorTarget, incomeSankeyNodes, nodeValues,
                 nodes, filteredLinks, mapped>>
  /\ UNCHANGED <<mergeVars, priorVars, moduleVars, titleVars>>

-----------------------------------------------------------------------------
(* Specifications                                                          *)

CompileIdle ==
  /\ pc = "idle"
  /\ companyFactsResponse = [periods |-> <<>>]
  /\ periodId = ""
  /\ incomeSankeyTemplateOverride = <<>>
  /\ priorPeriod = <<>>
  /\ incomeSankeyTemplate = [nodes |-> <<>>, links |-> <<>>]
  /\ valuesByConceptSource = EmptyPool
  /\ valuesByConceptTarget = EmptyPool
  /\ valuesByConceptPriorSource = EmptyPool
  /\ valuesByConceptPriorTarget = EmptyPool
  /\ incomeSankeyNodes = <<>>
  /\ nodeValues = <<>>
  /\ nodes = <<>>
  /\ filteredLinks = <<>>
  /\ mapped = <<>>
  /\ links = <<>>

\* the module as loaded, before any call
ModuleIdle ==
  moduleDefaultTemplate = defaultIncomeSankeyTemplate /\ calls = <<>>

MergeIdle == mT = <<>> /\ mO = <<>> /\ mOnce = <<>> /\ mTwice = <<>>
TitleIdle ==
  ntNode = <<>> /\ ntConcepts = <<>> /\ ntValue = 0 /\ ntTitle = <<>>
PriorIdle ==
  ppPeriods = <<>> /\ ppId = "" /\ ppResult = [called |-> FALSE, period |-> <<>>]

Init ==
  /\ pc = "start"
  /\ \E S \in TagSets, other \in OtherPeriods : \E f \in [S -> FactValues] :
       companyFactsResponse =
         [periods |-> <<CurrentPeriod(FactList(f))>> \o other]
  /\ periodId \in PeriodIds
  /\ incomeSankeyTemplateOverride \in OverrideTemplates
  /\ priorPeriod = <<>>
  /\ incomeSankeyTemplate = [nodes |-> <<>>, links |-> <<>>]
  /\ valuesByConceptSource = EmptyPool
  /\ valuesByConceptTarget = EmptyPool
  /\ valuesByConceptPriorSource = EmptyPool
  /\ valuesByConceptPriorTarget = EmptyPool
  /\ incomeSankeyNodes = <<>>
  /\ nodeValues = <<>>
  /\ nodes = <<>>
  /\ filteredLinks = <<>>
  /\ mapped = <<>>
  /\ links = <<>>
  /\ MergeIdle
  /\ PriorIdle
  /\ ModuleIdle
  /\ TitleIdle

Next == Throw \/ BuildIndex \/ ResolveNodes \/ ProcessLink \/ Return

Spec == Init /\ [][Next]_vars

-----------------------------------------------------------------------------
(* mergeIncomeSankeyTemplates on its own: a base template and an optional   *)
(* override are merged, and the result is merged with the override again.   *)
(* Node and link ids of these templates hold no "|", so that the key        *)
(* `${source}|${target}` of two links is equal exactly when both ids are.   *)

\* a base template lists at most MaxBaseLen nodes and MaxBaseLen links
MaxBaseLen == 2
\* an override lists at most MaxOverrideLen nodes and MaxOverrideLen links
MaxOverrideLen == 1

BaseNodeChoices ==
  {[id |-> "a", order |-> 10, title |-> "A", color |-> "red",
    conceptTags |-> <<StrTag(Revenue)>>],
   [id |-> "b", order |-> 10, title |-> "B",
    conceptTags |-> <<StrTag(CostOfGoods)>>],
   [id |-> "c", order |-> 5, color |-> "green",
    conceptTags |-> <<StrTag(GrossProfit)>>]}

OverrideNodeChoices ==
  {[id |-> "a", color |-> "blue"],
   [id |-> "b", order |-> 1, title |-> "B2"],
   [id |-> "d", order |-> 10, conceptTags |-> <<StrTag(Cash)>>]}

BaseLinkChoices ==
  {[source |-> "a", target |-> "b", order |-> 10],
   [source |-> "a", target |-> "b", order |-> 20, type |-> "c"],
   [source |-> "b", target |-> "c", order |-> 10,
    condition |-> [type |-> "positive", concept |-> "a"]]}

OverrideLinkChoices ==
  {[source |-> "a", target |-> "b", order |-> 30],
   [source |-> "b", target |-> "c", order |-> 10, type |-> "a"],
   [source |-> "a", target |-> "c", order |-> 10]}

\* the sequences of at most n elements of S
SeqsUpTo(S, n) == UNION {[1..k -> S] : k \in 0..n}

\* the sequences of at most n distinct elements of S
DistinctSeqs(S, n) ==
  {q \in SeqsUpTo(S, n) : \A i, j \in DOMAIN q : q[i] = q[j] => i = j}

\* no two elements of a node list share an id
UniqueIds(ns) == \A i, j \in DOMAIN ns : ns[i].id = ns[j].id => i = j

BaseTemplates ==
  {defaultIncomeSankeyTemplate} \cup
  {[nodes |-> ns, links |-> ls] :
     ns \in DistinctSeqs(BaseNodeChoices, MaxBaseLen),
     ls \in DistinctSeqs(BaseLinkChoices, MaxBaseLen)}

\* Scenario C: a new color for node "tax" and nothing else
TaxColorOverride ==
  [nodes |-> <<[id |-> "tax", color |-> "purple"]>>, links |-> <<>>]

MergeOverrides ==
  {<<>>, <<TaxColorOverride>>} \cup
  {<<[nodes |-> ns, links |-> ls]>> :
     ns \in DistinctSeqs(OverrideNodeChoices, MaxOverrideLen),
     ls \in DistinctSeqs(OverrideLinkChoices, MaxOverrideLen)}

\* every merged node has an order to sort by: an override node that gives
\* no order overrides a node of the base
Sortable(T, O) ==
  IF O = <<>> THEN TRUE
  ELSE \A i \in DOMAIN O[1].nodes :
         IF "order" \in DOMAIN O[1].nodes[i] THEN TRUE
         ELSE \E j \in DOMAIN T.nodes : T.nodes[j].id = O[1].nodes[i].id

MergeInit ==
  /\ CompileIdle
  /\ PriorIdle
  /\ ModuleIdle
  /\ TitleIdle
  /\ mT \in BaseTemplates
  /\ mO \in MergeOverrides
  /\ Sortable(mT, mO)
  /\ mOnce = <<>>
  /\ mTwice = <<>>

\* merged = mergeIncomeSankeyTemplates(T, O)
MergeOnce ==
  /\ mOnce = <<>>
  /\ mOnce' = <<mergeIncomeSankeyTemplates(mT, mO)>>
  /\ UNCHANGED <<mT, mO, mTwice, compileVars, priorVars, moduleVars, titleVars>>

\* again = mergeIncomeSankeyTemplates(merged, O)
MergeTwice ==
  /\ mOnce # <<>>
  /\ mTwice = <<>>
  /\ mTwice' = <<mergeIncomeSankeyTemplates(mOnce[1], mO)>>
  /\ UNCHANGED <<mT, mO, mOnce, compileVars, priorVars, moduleVars, titleVars>>

MergeNext == MergeOnce \/ MergeTwice

MergeSpec == MergeInit /\ [][MergeNext]_vars

-----------------------------------------------------------------------------
(* getPriorPeriod on its own                                                *)

\* a dataset holds at most MaxPeriods periods
MaxPeriods == 3

PeriodNames == <<"FY", "Q4", "Q3", "PY", "P5">>
EndDates == {"2022-12-31", "2023-09-30", "2023-12-31", "2024-12-31"}

\* the period lists of k periods, the i-th named PeriodNames[i]
PeriodLists ==
  UNION {{[i \in 1..k |-> [id |-> PeriodNames[i], end_date |-> d[i], facts |-> <<>>]] :
            d \in [1..k -> EndDates]} :
         k \in 1..Min2(MaxPeriods, Len(PeriodNames))}

PriorInit ==
  /\ CompileIdle
  /\ MergeIdle
  /\ ModuleIdle
  /\ TitleIdle
  /\ ppPeriods \in PeriodLists
  /\ ppId \in {ppPeriods[i].id : i \in DOMAIN ppPeriods}
  /\ ppResult = [called |-> FALSE, period |-> <<>>]

\* prior = getPriorPeriod(periods, periodId)
CallGetPriorPeriod ==
  /\ ~ppResult.called
  /\ ppResult' = [called |-> TRUE, period |-> getPriorPeriod(ppPeriods, ppId)]
  /\ UNCHANGED <<ppPeriods, ppId, compileVars, mergeVars, moduleVars,
                 titleVars>>

PriorNext == CallGetPriorPeriod

PriorSpec == PriorInit /\ [][PriorNext]_vars

-----------------------------------------------------------------------------
(* Properties                                                               *)

Ids(ns) == {ns[i].id : i \in DOMAIN ns}

\* the sum of the values of the links of ls that Pick selects
RECURSIVE FlowSum(_, _, _)
FlowSum(ls, end, id) ==
  IF ls = <<>> THEN 0
  ELSE (IF Head(ls)[end] = id THEN Head(ls).value ELSE 0)
       + FlowSum(Tail(ls), end, id)

\* the node template behind an output node
TemplateOf(id) == Find(incomeSankeyNodes, LAMBDA n : n.id = id)[1]

\* C1: in a returned graph, for every output node that is not "unlimited",
\* the values of the emitted links leaving the node sum to at most the
\* absolute value of the node.
C1_OutgoingFlowConserved ==
  pc = "done" =>
    \A i \in DOMAIN nodes :
       ~IsUnlimited(TemplateOf(nodes[i].id)) =>
         FlowSum(links, "source", nodes[i].id) <= Abs(nodes[i].value)

\* C2: in a returned graph, the source id and the target id of every emitted
\* link are ids of emitted nodes.
C2_LinkEndpointsSurvive ==
  pc = "done" =>
    \A i \in DOMAIN links :
       links[i].source \in Ids(nodes) /\ links[i].target \in Ids(nodes)

\* the value the initial value pass resolved for the node a condition names:
\* nodeValues holds it for the kept nodes, any other node counts 0
InitialValue(id) == IF id \in DOMAIN nodeValues THEN nodeValues[id] ELSE 0

\* the condition of link l, decided on the values of the initial value pass
ConditionMetInitially(l) ==
  IF "condition" \notin DOMAIN l THEN TRUE
  ELSE IF l.condition.type = "positive"
       THEN InitialValue(l.condition.concept) > 0
       ELSE InitialValue(l.condition.concept) <= 0

\* C3: a processed link is emitted exactly when its condition is met by the
\* value that the initial value pass resolved for the node it names, whatever
\* earlier links deducted from the pools.
C3_ConditionsUseInitialValues ==
  pc \in {"links", "done"} =>
    \A i \in DOMAIN mapped :
       (mapped[i] # Null) <=> ConditionMetInitially(filteredLinks[i])

\* the pools as built from the facts, before any link is processed
FactPools ==
  InitialPools(FindPeriod[1],
               getPriorPeriod(companyFactsResponse.periods, periodId))

\* the pool a node's value is read from: the prior one iff the node is marked
\* usePriorPeriod and a prior period exists
SelectedFacts(n) ==
  IF UsesPrior(n) /\ HasPrior THEN FactPools.priorSource ELSE FactPools.source

TagName(tag) == IF IsString(tag) THEN tag.str ELSE tag.tag

\* the tag has a number in the pool
Present(tag, values) ==
  TagName(tag) \in DOMAIN values /\ values[TagName(tag)].k = "n"

\* the documented contribution of one tag: + for a bare tag, for "add" and
\* for an object without action, - for "subtract", 0 for a tag not in the pool
Contribution(tag, values) ==
  IF ~Present(tag, values) THEN 0
  ELSE IF ~IsString(tag) /\ "action" \in DOMAIN tag /\ tag.action = "subtract"
       THEN 0 - values[TagName(tag)].v
       ELSE values[TagName(tag)].v

RECURSIVE SignedSum(_, _)
SignedSum(tags, values) ==
  IF tags = <<>> THEN 0
  ELSE Contribution(Head(tags), values) + SignedSum(Tail(tags), values)

\* every contribution of the node states its sign: a bare tag, or an object
\* with an action
SignsStated(n) ==
  \A i \in DOMAIN n.conceptTags :
     IsString(n.conceptTags[i]) \/ "action" \in DOMAIN n.conceptTags[i]

AllPresent(n) ==
  \A i \in DOMAIN n.conceptTags : Present(n.conceptTags[i], SelectedFacts(n))

\* C4: a node template is in the output node list exactly when the signed sum
\* of its contributions over the selected period's facts is not 0, and no
\* output node has value 0.  (Stated for the nodes whose contributions state
\* their sign.)
C4_NodeListedIffSumNonzero ==
  pc \in {"links", "done"} =>
    /\ \A i \in DOMAIN nodes : nodes[i].value # 0
    /\ \A i \in DOMAIN incomeSankeyTemplate.nodes :
         LET n == incomeSankeyTemplate.nodes[i]
         IN  SignsStated(n) =>
               ((n.id \in Ids(nodes)) <=>
                  SignedSum(n.conceptTags, SelectedFacts(n)) # 0)

\* C5: the value resolved for a node is the signed sum of the contributions
\* whose tag is in the selected pool; a tag that is not there adds 0 wherever
\* it stands in the list.  (Stated for the nodes whose contributions state
\* their sign.)
C5_MissingTagAddsZero ==
  pc \in {"links", "done"} =>
    \A i \in DOMAIN incomeSankeyTemplate.nodes :
       LET n == incomeSankeyTemplate.nodes[i]
       IN  SignsStated(n) =>
             InitialValue(n.id) = SignedSum(n.conceptTags, SelectedFacts(n))

\* C6: a contribution given as an object without action counts like a bare
\* tag and like action "add": the value resolved for a node all of whose tags
\* are in the pool is the sum with only "subtract" negated.
C6_DefaultActionIsAdd ==
  pc \in {"links", "done"} =>
    \A i \in DOMAIN incomeSankeyTemplate.nodes :
       LET n == incomeSankeyTemplate.nodes[i]
       IN  AllPresent(n) =>
             InitialValue(n.id) = SignedSum(n.conceptTags, SelectedFacts(n))

\* C7: merging the merged template with the same override again returns the
\* same node list and the same link list, element by element.
C7_MergeIdempotent == mTwice # <<>> => mTwice = mOnce

\* an override that meets the base on a node id and on a link key was merged
\* twice, and the first merge changed both lists
C7_Witness ==
  /\ mTwice # <<>>
  /\ mO # <<>>
  /\ mOnce[1].nodes # SortByOrder(mT.nodes)
  /\ mOnce[1].links # SortByOrder(mT.links)
  /\ \E i \in DOMAIN mO[1].nodes : mO[1].nodes[i].id \in Ids(mT.nodes)
  /\ \E i \in DOMAIN mO[1].links, j \in DOMAIN mT.links :
       linkKey(mO[1].links[i]) = linkKey(mT.links[j])

\* the nodes of the override merged (none when no override was given)
OverrideNodes == IF mO = <<>> THEN <<>> ELSE mO[1].nodes

\* C8: the merged node list holds one node for each id of the base or the
\* override; a node of both has the override's value for each field the
\* override node defines and the base's value for every other field; a node
\* of the override alone is the override's node; a node of the base alone is
\* the base's node.
C8_OverrideWinsById ==
  mOnce # <<>> =>
    LET M == mOnce[1].nodes
    IN  /\ UniqueIds(M)
        /\ Ids(M) = Ids(mT.nodes) \cup Ids(OverrideNodes)
        /\ \A i \in DOMAIN M :
             LET b == Find(mT.nodes, LAMBDA n : n.id = M[i].id)
                 o == Find(OverrideNodes, LAMBDA n : n.id = M[i].id)
             IN  IF b # <<>> /\ o # <<>>
                 THEN /\ DOMAIN M[i] = (DOMAIN b[1]) \cup (DOMAIN o[1])
                      /\ \A f \in DOMAIN M[i] :
                           M[i][f] = IF f \in DOMAIN o[1] THEN o[1][f] ELSE b[1][f]
                 ELSE IF o # <<>> THEN M[i] = o[1]
                 ELSE M[i] = b[1]

\* Scenario C: the bundled template merged with an override that gives only a
\* new color for "tax"; the merged "tax" shows the new color and the base's
\* title
C8_Witness ==
  /\ mOnce # <<>>
  /\ mT = defaultIncomeSankeyTemplate
  /\ mO = <<TaxColorOverride>>
  /\ \E i \in DOMAIN mOnce[1].nodes :
       /\ mOnce[1].nodes[i].id = "tax"
       /\ mOnce[1].nodes[i].color = "purple"
       /\ mOnce[1].nodes[i].title = "Tax"

\* C9 as claimed: without a prior period every node marked usePriorPeriod
\* resolves to 0.
C9_NoPriorContributesZero ==
  (pc \in {"links", "done"} /\ ~HasPrior) =>
    \A i \in DOMAIN incomeSankeyTemplate.nodes :
       UsesPrior(incomeSankeyTemplate.nodes[i]) =>
         InitialValue(incomeSankeyTemplate.nodes[i].id) = 0

\* the value of a list of contributions read from the requested period's facts
CurrentPeriodValue(tags) ==
  getConceptTagsValue(tags, FALSE, FactPools.source, FALSE, EmptyPool)

\* C9 as amended: without a prior period a node marked usePriorPeriod resolves
\* from the requested period's own facts, like a node without the mark, and
\* the prior pools stay without entries: nothing is read from or deducted
\* from them.
C9_NoPriorFallsBackToCurrent ==
  (pc \in {"links", "done"} /\ ~HasPrior) =>
    /\ \A i \in DOMAIN incomeSankeyTemplate.nodes :
         LET n == incomeSankeyTemplate.nodes[i]
         IN  UsesPrior(n) => InitialValue(n.id) = CurrentPeriodValue(n.conceptTags)
    /\ valuesByConceptPriorSource = EmptyPool
    /\ valuesByConceptPriorTarget = EmptyPool

\* a graph was returned for a dataset without prior period in which the node
\* marked usePriorPeriod is listed with the requested period's cash and feeds
\* a link
C9_Witness ==
  /\ pc = "done"
  /\ ~HasPrior
  /\ \E i \in DOMAIN nodes :
       /\ nodes[i].id = "bank-account"
       /\ nodes[i].value # 0
       /\ UsesPrior(TemplateOf("bank-account"))
  /\ \E i \in DOMAIN links : links[i].source = "bank-account" /\ links[i].value > 0

\* the requested period of the getPriorPeriod call
Requested == Find(ppPeriods, LAMBDA p : p.id = ppId)[1]

\* C10: the prior period is a period with the largest end date strictly before
\* the requested period's end date, and there is none exactly when no period
\* ends before the requested one.
C10_PriorIsLatestStrictlyEarlier ==
  ppResult.called =>
    LET earlier == {i \in DOMAIN ppPeriods :
                      DateGetTime(ppPeriods[i].end_date)
                        < DateGetTime(Requested.end_date)}
    IN  IF earlier = {} THEN ppResult.period = <<>>
        ELSE /\ ppResult.period # <<>>
             /\ DateGetTime(ppResult.period[1].end_date)
                  < DateGetTime(Requested.end_date)
             /\ \A i \in earlier :
                  DateGetTime(ppPeriods[i].end_date)
                    <= DateGetTime(ppResult.period[1].end_date)

\* the dataset holds a period with the requested id
PeriodPresent ==
  \E i \in DOMAIN companyFactsResponse.periods :
     companyFactsResponse.periods[i].id = periodId

\* C11: a call aborts only when the requested period id is absent from the
\* dataset, and then it aborts before anything else and returns no graph; a
\* call whose period id is present never aborts: the lookup that guards the
\* abort finds the period, the call goes through its statements, and the
\* graph it returns holds a result for every link that passed the filter.
C11_PeriodNotFoundOnlyAbort ==
  /\ PeriodPresent <=> FindPeriod # <<>>
  /\ pc = "thrown" => (~PeriodPresent /\ nodes = <<>> /\ links = <<>>)
  /\ ~PeriodPresent => pc \in {"start", "thrown"}
  /\ PeriodPresent => pc \in {"start", "nodes", "links", "done"}
  /\ pc = "links" => Len(mapped) <= Len(filteredLinks)
  /\ pc = "done" =>
       /\ Len(mapped) = Len(filteredLinks)
       /\ Len(links) <= Len(mapped)

\* a graph was returned for a dataset without prior period, with an override,
\* in which a contribution of a listed node has no fact
C11_Witness ==
  /\ pc = "done"
  /\ PeriodPresent
  /\ ~HasPrior
  /\ incomeSankeyTemplateOverride # <<>>
  /\ \E i \in DOMAIN incomeSankeyNodes :
       ~AllPresent(incomeSankeyNodes[i])

\* the concept names a list of contributions reads
TagNames(tags) == {TagName(tags[i]) : i \in DOMAIN tags}

SourceTagsOf(l) ==
  getConceptTags(incomeSankeyTemplate,
                 Find(incomeSankeyNodes, LAMBDA n : n.id = l.source), l)

TargetTagsOf(l) ==
  getConceptTags(incomeSankeyTemplate,
                 Find(incomeSankeyNodes, LAMBDA n : n.id = l.target), l)

\* node n has a single contribution, and it is added
SingleAdd(n) ==
  /\ Len(n.conceptTags) = 1
  /\ \/ IsString(n.conceptTags[1])
     \/ "action" \in DOMAIN n.conceptTags[1] /\ n.conceptTags[1].action = "add"

\* the value of a listed node: the signed sum of its contributions over the
\* facts of the period it reads
FactValue(id) ==
  SignedSum(TemplateOf(id).conceptTags, SelectedFacts(TemplateOf(id)))

\* The filtered links at positions i and j compete for one source: both are
\* untyped and active, they leave the same reported-mode source of a single
\* added contribution and positive value for two distinct targets of positive
\* need, the link at i has the lower order, and no other link visited up to
\* the second of them draws on the source's concept or fills a concept of
\* either target.
Competing(i, j) ==
  LET a == filteredLinks[i]
      b == filteredLinks[j]
  IN  /\ a.order < b.order
      /\ "type" \notin DOMAIN a /\ "type" \notin DOMAIN b
      /\ a.source = b.source /\ a.target # b.target
      /\ ConditionMetInitially(a) /\ ConditionMetInitially(b)
      /\ ~IsUnlimited(TemplateOf(a.source))
      /\ SingleAdd(TemplateOf(a.source))
      /\ FactValue(a.source) > 0
      /\ FactValue(a.target) > 0 /\ FactValue(b.target) > 0
      /\ TagNames(TargetTagsOf(a)) \cap TagNames(TargetTagsOf(b)) = {}
      /\ \A k \in DOMAIN filteredLinks \ {i, j} :
           filteredLinks[k].order <= b.order =>
             /\ TagNames(SourceTagsOf(filteredLinks[k]))
                  \cap TagNames(SourceTagsOf(a)) = {}
             /\ TagNames(TargetTagsOf(filteredLinks[k]))
                  \cap (TagNames(TargetTagsOf(a)) \cup TagNames(TargetTagsOf(b)))
                  = {}

SourcePoolOf(n) ==
  IF UsesPrior(n) /\ HasPrior THEN valuesByConceptPriorSource
  ELSE valuesByConceptSource

TargetPoolOf(n) ==
  IF UsesPrior(n) /\ HasPrior THEN valuesByConceptPriorTarget
  ELSE valuesByConceptTarget

\* what the node has left: the absolute value of the signed sum of its
\* contributions over the pool as the earlier links left it
Remaining(n, pool) == Abs(SignedSum(n.conceptTags, pool))

\* the map is about to process an untyped link whose source is not unlimited
AtLimitedUntypedLink ==
  /\ pc = "links"
  /\ Len(mapped) < Len(filteredLinks)
  /\ "type" \notin DOMAIN NextLink
  /\ ~IsUnlimited(TemplateOf(NextLink.source))

\* C13: the value of every processed untyped link whose source node is not
\* unlimited is the minimum of what its source node and its target node have
\* left in the pools at that moment, hence at most either of them.
C13_LinkValueIsMinOfRemaining ==
  (AtLimitedUntypedLink /\ ~ThisStep.dropped) =>
    LET sourceRemaining ==
          Remaining(TemplateOf(NextLink.source),
                    SourcePoolOf(TemplateOf(NextLink.source)))
        targetRemaining ==
          Remaining(TemplateOf(NextLink.target),
                    TargetPoolOf(TemplateOf(NextLink.target)))
    IN  ThisStep.value = Min2(sourceRemaining, targetRemaining)

\* the template marks the node as an unlimited source
MarkedUnlimited(n) ==
  "valueSource" \in DOMAIN n /\ n.valueSource = "unlimited"

\* the node of the merged template with the given id
MergedNode(id) == Find(incomeSankeyTemplate.nodes, LAMBDA n : n.id = id)[1]

\* the map is about to process a link whose source node is marked unlimited
AtUnlimitedLink ==
  /\ pc = "links"
  /\ Len(mapped) < Len(filteredLinks)
  /\ MarkedUnlimited(MergedNode(NextLink.source))

\* what the target basis of the link the map is at has left: the absolute
\* signed sum of the contributions of the basis over the target-side pool
TargetRemaining ==
  Abs(SignedSum(TargetTagsOf(NextLink),
                TargetPoolOf(TemplateOf(NextLink.target))))

\* C14: the value of every processed link whose source node is marked
\* unlimited is what the target basis has left at that moment, whatever the
\* value of the source node.
C14_UnlimitedTakesTargetRemaining ==
  (AtUnlimitedLink /\ ~ThisStep.dropped) => ThisStep.value = TargetRemaining

\* the entry of a concept in a pool (Undefined when the pool has none)
Entry(pool, name) == IF name \in DOMAIN pool THEN pool[name] ELSE Undefined

\* the contribution with this concept name in a list of contributions
TagOf(tags, name) ==
  tags[CHOOSE i \in DOMAIN tags : TagName(tags[i]) = name]

\* a subtracted contribution
IsSubtract(tag) ==
  ~IsString(tag) /\ "action" \in DOMAIN tag /\ tag.action = "subtract"

\* Pool `after` is pool `before` with the flow taken from the contributions
\* `tags`: every entry of another concept is as it was, and every number
\* entry of a concept of `tags` has gone down by the flow, or up by the flow
\* if its contribution is a subtracted one (its contribution, -entry, has
\* then gone down by the flow).
ReducedBy(before, after, tags, flow) ==
  \A name \in (DOMAIN before) \cup (DOMAIN after) :
     IF name \notin TagNames(tags)
     THEN Entry(after, name) = Entry(before, name)
     ELSE Entry(before, name).k = "n" =>
            Entry(after, name) =
              IF IsSubtract(TagOf(tags, name))
              THEN Num(Entry(before, name).v + flow)
              ELSE Num(Entry(before, name).v - flow)

\* C15: processing a link whose source node is marked unlimited leaves the
\* current and the prior source pool as they were; on the target side only
\* the entries backing the target basis change, and they are reduced by the
\* flow; a link that is removed changes nothing.
C15_UnlimitedSourceNotDepleted ==
  AtUnlimitedLink =>
    LET after == ThisStep.pools
        flow == IF ThisStep.dropped THEN 0 ELSE ThisStep.value
        toPrior == UsesPrior(TemplateOf(NextLink.target)) /\ HasPrior
    IN  /\ after.source = valuesByConceptSource
        /\ after.priorSource = valuesByConceptPriorSource
        /\ ReducedBy(valuesByConceptTarget, after.target,
                     TargetTagsOf(NextLink), IF toPrior THEN 0 ELSE flow)
        /\ ReducedBy(valuesByConceptPriorTarget, after.priorTarget,
                     TargetTagsOf(NextLink), IF toPrior THEN flow ELSE 0)

-----------------------------------------------------------------------------
(* Several calls of getIncomeSankey, one after the other, in one module     *)
(* instance: the module-level template outlives a call, the locals of a     *)
(* call do not.                                                             *)

\* a session makes at most MaxCalls calls
MaxCalls == 3

\* the datasets of the session: one period whose revenue does not cover both
\* of its targets, and a dataset that lists the earlier period first
CallDatasets ==
  {[periods |->
      <<CurrentPeriod(<<[concept |-> Revenue, value |-> <<"2">>],
                        [concept |-> CostOfGoods, value |-> <<"2">>],
                        [concept |-> GrossProfit, value |-> <<"1">>]>>)>>],
   [periods |->
      <<[id |-> "2022-FY", end_date |-> "2022-12-31",
         facts |-> <<[concept |-> Cash, value |-> <<"2">>]>>],
        CurrentPeriod(<<[concept |-> GrossProfit, value |-> <<"-", "1">>],
                        [concept |-> OperatingIncomeLoss, value |-> <<"2">>]>>)>>]}

\* the outcome of the call that has ended
Outcome ==
  IF pc = "thrown" THEN [thrown |-> TRUE]
  ELSE [nodes |-> nodes, links |-> links]

CallsInit ==
  /\ pc = "start"
  /\ companyFactsResponse \in CallDatasets
  /\ periodId \in PeriodIds
  /\ incomeSankeyTemplateOverride \in OverrideTemplates
  /\ priorPeriod = <<>>
  /\ incomeSankeyTemplate = [nodes |-> <<>>, links |-> <<>>]
  /\ valuesByConceptSource = EmptyPool
  /\ valuesByConceptTarget = EmptyPool
  /\ valuesByConceptPriorSource = EmptyPool
  /\ valuesByConceptPriorTarget = EmptyPool
  /\ incomeSankeyNodes = <<>>
  /\ nodeValues = <<>>
  /\ nodes = <<>>
  /\ filteredLinks = <<>>
  /\ mapped = <<>>
  /\ links = <<>>
  /\ MergeIdle
  /\ PriorIdle
  /\ ModuleIdle
  /\ TitleIdle

\* the call has ended and the caller calls again: the locals of the new call
\* are new (lines 617-702 declare each of them with const), the module-level
\* template is the object the earlier calls used
NextCall ==
  /\ pc \in {"done", "thrown"}
  /\ Len(calls) + 1 < MaxCalls
  /\ calls' = Append(calls,
                     [companyFactsResponse |-> companyFactsResponse,
                      periodId |-> periodId,
                      incomeSankeyTemplateOverride |-> incomeSankeyTemplateOverride,
                      outcome |-> Outcome])
  /\ pc' = "start"
  /\ companyFactsResponse' \in CallDatasets
  /\ periodId' \in PeriodIds
  /\ incomeSankeyTemplateOverride' \in OverrideTemplates
  /\ priorPeriod' = <<>>
  /\ incomeSankeyTemplate' = [nodes |-> <<>>, links |-> <<>>]
  /\ valuesByConceptSource' = EmptyPool
  /\ valuesByConceptTarget' = EmptyPool
  /\ valuesByConceptPriorSource' = EmptyPool
  /\ valuesByConceptPriorTarget' = EmptyPool
  /\ incomeSankeyNodes' = <<>>
  /\ nodeValues' = <<>>
  /\ nodes' = <<>>
  /\ filteredLinks' = <<>>
  /\ mapped' = <<>>
  /\ links' = <<>>
  /\ UNCHANGED <<moduleDefaultTemplate, mergeVars, priorVars, titleVars>>

CallsNext ==
  Throw \/ BuildIndex \/ ResolveNodes \/ ProcessLink \/ Return \/ NextCall

CallsSpec == CallsInit /\ [][CallsNext]_vars

\* the earlier call c had the arguments of the call in progress
SameArguments(c) ==
  /\ c.companyFactsResponse = companyFactsResponse
  /\ c.periodId = periodId
  /\ c.incomeSankeyTemplateOverride = incomeSankeyTemplateOverride

-----------------------------------------------------------------------------
(* getIncomeSankey on periods that report revenue, cost of goods sold and   *)
(* gross profit, without override                                           *)

\* the three facts are amounts from 1 to MaxAmount
MaxAmount == 4

\* the string of a one-digit amount
AmountString(n) == <<CHOOSE c \in Digits : DigitValue(c) = n>>

\* the period's other facts: none, or an operating income of 0
ScenarioExtraFacts ==
  {<<>>, <<[concept |-> OperatingIncomeLoss, value |-> <<"0">>]>>}

\* the other periods of the dataset: none, or an earlier period with cash 2
\* or with cash 0
ScenarioOtherPeriods ==
  {<<>>} \cup
  {<<[id |-> "2022-FY", end_date |-> "2022-12-31",
      facts |-> <<[concept |-> Cash, value |-> c]>>]>> : c \in {<<"2">>, <<"0">>}}

ScenarioInit ==
  /\ pc = "start"
  /\ \E r, c, g \in 1..MaxAmount :
       \E extra \in ScenarioExtraFacts, other \in ScenarioOtherPeriods :
          companyFactsResponse =
            [periods |->
               <<CurrentPeriod(<<[concept |-> Revenue, value |-> AmountString(r)],
                                 [concept |-> CostOfGoods, value |-> AmountString(c)],
                                 [concept |-> GrossProfit, value |-> AmountString(g)]>>
                               \o extra)>>
               \o other]
  /\ periodId \in PeriodIds
  /\ incomeSankeyTemplateOverride = <<>>
  /\ priorPeriod = <<>>
  /\ incomeSankeyTemplate = [nodes |-> <<>>, links |-> <<>>]
  /\ valuesByConceptSource = EmptyPool
  /\ valuesByConceptTarget = EmptyPool
  /\ valuesByConceptPriorSource = EmptyPool
  /\ valuesByConceptPriorTarget = EmptyPool
  /\ incomeSankeyNodes = <<>>
  /\ nodeValues = <<>>
  /\ nodes = <<>>
  /\ filteredLinks = <<>>
  /\ mapped = <<>>
  /\ links = <<>>
  /\ MergeIdle
  /\ PriorIdle
  /\ ModuleIdle
  /\ TitleIdle

ScenarioSpec == ScenarioInit /\ [][Next]_vars

\* the number the requested period reports for a concept, 0 when it reports
\* none
Reported(concept) ==
  IF Entry(FactPools.source, concept).k = "n"
  THEN Entry(FactPools.source, concept).v ELSE 0

\* the call has returned, without override, for a period whose only nonzero
\* facts are revenue R, cost of goods sold C and gross profit G with
\* R >= C > 0 and G = R - C > 0
RevenueSplitReturned ==
  /\ pc = "done"
  /\ incomeSankeyTemplateOverride = <<>>
  /\ Reported(CostOfGoods) > 0
  /\ Reported(Revenue) >= Reported(CostOfGoods)
  /\ Reported(GrossProfit) = Reported(Revenue) - Reported(CostOfGoods)
  /\ Reported(GrossProfit) > 0
  /\ \A name \in DOMAIN FactPools.source :
       name \notin {Revenue, CostOfGoods, GrossProfit} => Reported(name) = 0

\* the output nodes as a set of id and value
NodeSet == {[id |-> nodes[i].id, value |-> nodes[i].value] : i \in DOMAIN nodes}

\* the output links are revenue -> cost-of-goods-sold with value C followed
\* by revenue -> gross-profit with value G
SplitLinks ==
  /\ Len(links) = 2
  /\ "type" \notin DOMAIN links[1] /\ "type" \notin DOMAIN links[2]
  /\ links[1].source = "revenue" /\ links[1].target = "cost-of-goods-sold"
  /\ links[1].value = Reported(CostOfGoods)
  /\ links[2].source = "revenue" /\ links[2].target = "gross-profit"
  /\ links[2].value = Reported(GrossProfit)

SplitNodes ==
  {[id |-> "revenue", value |-> Reported(Revenue)],
   [id |-> "cost-of-goods-sold", value |-> Reported(CostOfGoods)],
   [id |-> "gross-profit", value |-> Reported(GrossProfit)]}

\* C18 as claimed: for such a period the output nodes are exactly revenue
\* (R), cost-of-goods-sold (C) and gross-profit (G), and the output links are
\* exactly revenue -> cost-of-goods-sold with value C followed by
\* revenue -> gross-profit with value G.
C18_RevenueSplitThreeNodes ==
  RevenueSplitReturned => (NodeSet = SplitNodes /\ SplitLinks)

\* C18 as amended: for such a period the output nodes are revenue (R),
\* cost-of-goods-sold (C) and gross-profit (G), and also bank-account when
\* the prior period reports nonzero cash; the output links are exactly
\* revenue -> cost-of-goods-sold with value C followed by
\* revenue -> gross-profit with value G, so no bank-account link is emitted.
C18_RevenueSplit ==
  RevenueSplitReturned =>
    /\ SplitLinks
    /\ NodeSet \in {SplitNodes,
                    SplitNodes \cup {[id |-> "bank-account", value |-> 2]}}
    /\ (NodeSet = SplitNodes) <=>
         (~HasPrior \/ Entry(FactPools.priorSource, Cash) \in {Undefined, Num(0)})

\* revenue 4 was split into cost of goods sold 1 and gross profit 3 for a
\* dataset whose prior period reports cash
C18_Witness ==
  /\ RevenueSplitReturned
  /\ Reported(Revenue) = 4
  /\ Reported(CostOfGoods) = 1
  /\ HasPrior
  /\ \E i \in DOMAIN nodes : nodes[i].id = "bank-account"

\* link l carries the condition {type, "gross-profit"}
GrossProfitCondition(l, type) ==
  "condition" \in DOMAIN l /\ l.condition = [type |-> type, concept |-> "gross-profit"]

\* the link template l is in the output: the map kept a link for it
Emitted(l) ==
  \E k \in DOMAIN filteredLinks : filteredLinks[k] = l /\ mapped[k] # Null

\* C19: in a graph returned for the default template in which gross-profit
\* resolves to a negative value, no link whose condition is
\* {positive, "gross-profit"} is in the output, and every link whose
\* condition is {negative, "gross-profit"} and whose source and target are
\* both output nodes is in the output.
C19_NegativeGrossProfitSwitchesLinks ==
  (pc = "done" /\ incomeSankeyTemplateOverride = <<>>
     /\ InitialValue("gross-profit") < 0) =>
    \A i \in DOMAIN incomeSankeyTemplate.links :
       LET l == incomeSankeyTemplate.links[i]
       IN  /\ GrossProfitCondition(l, "positive") => ~Emitted(l)
           /\ (GrossProfitCondition(l, "negative")
                 /\ l.source \in Ids(nodes) /\ l.target \in Ids(nodes))
                => Emitted(l)


-----------------------------------------------------------------------------
(* The order of the merged template                                         *)

\* a merge of any base template with any override
MergeCall == mT # <<>> /\ MergeOnce

\* either mergeIncomeSankeyTemplates is applied to a base template and an
\* override, or getIncomeSankey is called
OrderInit == MergeInit \/ Init

OrderNext ==
  MergeCall \/ MergeTwice
    \/ Throw \/ BuildIndex \/ ResolveNodes \/ ProcessLink \/ Return

OrderSpec == OrderInit /\ [][OrderNext]_vars

\* the list s is in non-decreasing order of the order field
IsAscending(s) == \A i, j \in DOMAIN s : i < j => s[i].order <= s[j].order

\* the list part is made of elements of the list whole, in whole's sequence
InSequenceOf(part, whole) ==
  part = SelectSeq(whole, LAMBDA l : \E k \in DOMAIN part : part[k] = l)

\* the output link out was made from the link template l
MadeFrom(out, l) ==
  /\ out.source = l.source
  /\ out.target = l.target
  /\ ("type" \in DOMAIN out) = ("type" \in DOMAIN l)
  /\ "type" \in DOMAIN l => out.type = l.type

\* C20: the node list and the link list returned by
\* mergeIncomeSankeyTemplates, for every base template and every override,
\* are in non-decreasing order of their order field, and the apportionment
\* of getIncomeSankey visits the links that pass the filter in exactly the
\* sequence of the merged link list.
C20_MergedTemplateSorted ==
  /\ \A m \in {mOnce, mTwice} :
       m # <<>> => IsAscending(m[1].nodes) /\ IsAscending(m[1].links)
  /\ pc \in {"nodes", "links", "done"} =>
       /\ IsAscending(incomeSankeyTemplate.nodes)
       /\ IsAscending(incomeSankeyTemplate.links)
  /\ pc \in {"links", "done"} =>
       /\ InSequenceOf(filteredLinks, incomeSankeyTemplate.links)
       /\ IsAscending(filteredLinks)
       /\ Len(mapped) <= Len(filteredLinks)
       /\ \A k \in DOMAIN mapped :
            mapped[k] # Null => MadeFrom(mapped[k], filteredLinks[k])
  /\ pc = "done" => InSequenceOf(links, mapped)

\* an override has moved revenue -> gross-profit in front of
\* revenue -> cost-of-goods-sold, and both links were visited and emitted in
\* the new sequence
C20_Witness ==
  /\ pc = "done"
  /\ incomeSankeyTemplateOverride = <<SwapOverride>>
  /\ ~IsAscending(defaultIncomeSankeyTemplate.links)
  /\ \E i, j \in DOMAIN links :
       /\ i < j
       /\ links[i].source = "revenue" /\ links[i].target = "gross-profit"
       /\ links[j].source = "revenue" /\ links[j].target = "cost-of-goods-sold"


-----------------------------------------------------------------------------
(* The value basis of a link that carries a type                            *)

\* the map is about to process a link whose type names a node template and
\* whose source and target are both kept nodes
AtTypedLink ==
  /\ pc = "links"
  /\ Len(mapped) < Len(filteredLinks)
  /\ TypeNode(incomeSankeyTemplate, <<NextLink>>) # <<>>
  /\ NextLink.source \in Ids(incomeSankeyNodes)
  /\ NextLink.target \in Ids(incomeSankeyNodes)

\* the node template the type of the link at hand names
TypeNodeOfNextLink == TypeNode(incomeSankeyTemplate, <<NextLink>>)[1]

\* C21: for every processed link whose type names a node template, the
\* value is computed from sourceRemaining, read from the contributions of
\* the node template named by the type, and from targetRemaining, read from
\* the contributions of the link's own target node; the emitted link has
\* the nominal source and target ids.
C21_TypedLinkValueBasis ==
  (AtTypedLink /\ ~ThisStep.dropped) =>
    LET src == TemplateOf(NextLink.source)
        tgt == TemplateOf(NextLink.target)
        sourceRemaining ==
          Abs(SignedSum(TypeNodeOfNextLink.conceptTags, SourcePoolOf(src)))
        targetRemaining ==
          Abs(SignedSum(tgt.conceptTags, TargetPoolOf(tgt)))
    IN  /\ ThisStep.value =
             IF IsUnlimited(src) THEN targetRemaining
             ELSE Min2(sourceRemaining, targetRemaining)
        /\ ThisStep.out.source = NextLink.source
        /\ ThisStep.out.target = NextLink.target


-----------------------------------------------------------------------------
(* What a link leaves of the bases it draws on                              *)

\* the source-side and the target-side pool of node n among the pools p
SourcePoolIn(p, n) ==
  IF UsesPrior(n) /\ HasPrior THEN p.priorSource ELSE p.source

TargetPoolIn(p, n) ==
  IF UsesPrior(n) /\ HasPrior THEN p.priorTarget ELSE p.target

\* the map is about to process a link that is emitted with a nonzero value
AtFlowingLink ==
  /\ pc = "links"
  /\ Len(mapped) < Len(filteredLinks)
  /\ ~ThisStep.dropped
  /\ ThisStep.value # 0

\* C22: processing a link of nonzero value f leaves the basis of its
\* source node, if the node is kept and not unlimited, and the basis of its
\* kept target node with a remaining amount (absolute signed sum over the
\* live pool) that is exactly f smaller than before the link.
C22_DeductionShrinksRemainder ==
  AtFlowingLink =>
    LET l == NextLink
        f == ThisStep.value
        after == ThisStep.pools
    IN  /\ (l.source \in Ids(incomeSankeyNodes)
              /\ ~IsUnlimited(TemplateOf(l.source))) =>
             Abs(SignedSum(SourceTagsOf(l),
                           SourcePoolIn(after, TemplateOf(l.source))))
               = Abs(SignedSum(SourceTagsOf(l),
                               SourcePoolIn(Pools, TemplateOf(l.source)))) - f
        /\ l.target \in Ids(incomeSankeyNodes) =>
             Abs(SignedSum(TargetTagsOf(l),
                           TargetPoolIn(after, TemplateOf(l.target))))
               = Abs(SignedSum(TargetTagsOf(l),
                               TargetPoolIn(Pools, TemplateOf(l.target)))) - f


-----------------------------------------------------------------------------
(* Links of value 0                                                         *)

-----------------------------------------------------------------------------
(* The order of the output                                                  *)

\* The positions of the node templates the output nodes were made from:
\* each output node is matched, by id, with the first node template after
\* the match of the node before it; position 0 marks an output node that
\* has no such template.
RECURSIVE NodeEmbedding(_, _, _)
NodeEmbedding(out, templates, from) ==
  IF out = <<>> THEN <<>>
  ELSE IF from > Len(templates) THEN <<0>>
  ELSE IF Head(out).id = templates[from].id
       THEN <<from>> \o NodeEmbedding(Tail(out), templates, from + 1)
       ELSE NodeEmbedding(out, templates, from + 1)

\* the same for the output links, matched by source, target and type
RECURSIVE LinkEmbedding(_, _, _)
LinkEmbedding(out, templates, from) ==
  IF out = <<>> THEN <<>>
  ELSE IF from > Len(templates) THEN <<0>>
  ELSE IF MadeFrom(Head(out), templates[from])
       THEN <<from>> \o LinkEmbedding(Tail(out), templates, from + 1)
       ELSE LinkEmbedding(out, templates, from + 1)

\* every output element has found its template
IsEmbedding(e, out) ==
  Len(e) = Len(out) /\ \A i \in DOMAIN e : e[i] # 0

\* the links as the templates declare them: the default template's, then
\* the override's
DeclaredLinks ==
  IF incomeSankeyTemplateOverride = <<>> THEN defaultIncomeSankeyTemplate.links
  ELSE defaultIncomeSankeyTemplate.links \o incomeSankeyTemplateOverride[1].links

\* where the (source, target) pair of link l is declared first
DeclaredAt(l) ==
  CHOOSE d \in DOMAIN DeclaredLinks :
    /\ linkKey(DeclaredLinks[d]) = linkKey(l)
    /\ \A c \in DOMAIN DeclaredLinks :
         linkKey(DeclaredLinks[c]) = linkKey(l) => d <= c

-----------------------------------------------------------------------------
(* The title of an output node                                              *)

\* a JavaScript string used as a condition: defined and not empty
Truthy(r, field) == field \in DOMAIN r /\ r[field] # ""

\* lines 581-588: the label of the first bare tag that names a concept of
\* the dataset, <<>> when there is none; a tag object is passed over
RECURSIVE LabelByTags(_, _)
LabelByTags(tags, concepts) ==
  IF tags = <<>> THEN <<>>
  ELSE LET tag == Head(tags)
           concept == IF IsString(tag)
                      THEN Find(concepts, LAMBDA c : c.tag = tag.str)
                      ELSE <<>>
       IN  IF concept # <<>> THEN <<concept[1].label>>
           ELSE LabelByTags(Tail(tags), concepts)

\* a title that never takes the negative variant
getNodeTitle_NeverNegative(node, response, value) ==
  IF Truthy(node, "title") THEN node.title
  ELSE LET label == LabelByTags(node.conceptTags, response.concepts)
       IN  IF label # <<>> THEN label[1] ELSE node.id

\* value is always given by getIncomeSankey
getNodeTitle(node, response, value) ==
  IF value < 0 /\ Truthy(node, "titleWhenNegative") THEN node.titleWhenNegative
  ELSE IF Truthy(node, "title") THEN node.title
  ELSE LET label == LabelByTags(node.conceptTags, response.concepts)
       IN  IF label # <<>> THEN label[1] ELSE node.id

\* the number |value| <= 9 as a string
NumberString(value) ==
  IF value < 0 THEN <<"-">> \o AmountString(0 - value) ELSE AmountString(value)

\* lines 687-688: the template literal of the title field, as the sequence
\* of its pieces
\*   `${getNodeTitle(n, companyFactsResponse, value)}
\*   ${value > 0 ? value : "(" + Math.abs(value) + ")"}`
TitleField(node, response, value) ==
  <<getNodeTitle(node, response, value), "\n">>
    \o (IF value > 0 THEN NumberString(value)
        ELSE <<"(">> \o NumberString(Abs(value)) \o <<")">>)

\* node values run from -MaxNodeValue to MaxNodeValue, 0 left out
MaxNodeValue == 2

\* the concepts of the datasets: none, one, two, or two that share a tag
RevenueConcept == [id |-> "1", tag |-> Revenue, label |-> "Revenues", unit |-> "USD"]
CashConcept == [id |-> "2", tag |-> Cash, label |-> "Cash", unit |-> "USD"]
SalesConcept == [id |-> "3", tag |-> Revenue, label |-> "Sales", unit |-> "USD"]

ConceptLists ==
  {<<>>, <<RevenueConcept>>, <<CashConcept>>, <<CashConcept, RevenueConcept>>,
   <<SalesConcept, RevenueConcept>>}

\* the contributions of the node templates
TitleTagLists ==
  {<<>>, <<StrTag(Revenue)>>, <<StrTag(Cash), StrTag(Revenue)>>,
   <<ObjTagAction(Revenue, "add")>>, <<ObjTag(Cash), StrTag(Revenue)>>}

\* node templates with and without title and negative title
TitleNodes ==
  {Spread(Spread([id |-> "my-node", order |-> 10, conceptTags |-> tags], t), w) :
     tags \in TitleTagLists,
     t \in {<<>>, [title |-> ""], [title |-> "Revenue"]},
     w \in {<<>>, [titleWhenNegative |-> "Loss"]}}

TitleInit ==
  /\ CompileIdle
  /\ MergeIdle
  /\ PriorIdle
  /\ ModuleIdle
  /\ ntNode \in {<<n>> : n \in TitleNodes}
  /\ ntConcepts \in ConceptLists
  /\ ntValue \in ((0 - MaxNodeValue)..MaxNodeValue) \ {0}
  /\ ntTitle = <<>>

\* lines 683-688: the map callback makes the title of one kept node
EmitTitle ==
  /\ ntNode # <<>>
  /\ ntTitle = <<>>
  /\ ntTitle' = <<TitleField(ntNode[1], [concepts |-> ntConcepts], ntValue)>>
  /\ UNCHANGED <<ntNode, ntConcepts, ntValue, compileVars, mergeVars,
                 priorVars, moduleVars>>

TitleNext == EmitTitle

TitleSpec == TitleInit /\ [][TitleNext]_vars

\* the labels of the concepts that one of the node's tags names
LabelsOf(node, concepts) ==
  {concepts[c].label : c \in {c \in DOMAIN concepts :
     \E i \in DOMAIN node.conceptTags :
        TagName(node.conceptTags[i]) = concepts[c].tag}}

\* C25 as stated: the title field is titleWhenNegative if the value is < 0
\* and titleWhenNegative is defined, else the title if defined, else the
\* label of the concept found by one of the tags, else the id, and nothing
\* else.
C25_TitleIsChosenTitleOnly ==
  ntTitle # <<>> =>
    LET n == ntNode[1]
    IN  \E chosen \in
            IF ntValue < 0 /\ "titleWhenNegative" \in DOMAIN n
            THEN {n.titleWhenNegative}
            ELSE IF "title" \in DOMAIN n THEN {n.title}
            ELSE IF LabelsOf(n, ntConcepts) # {} THEN LabelsOf(n, ntConcepts)
            ELSE {n.id} :
          ntTitle[1] = <<chosen>>

\* the first of the node's bare tags that names a concept of the dataset
FirstNamingTag(node, concepts) ==
  LET naming == SelectSeq(node.conceptTags,
                  LAMBDA t : IsString(t) /\ \E c \in DOMAIN concepts :
                                               concepts[c].tag = t.str)
  IN  IF naming = <<>> THEN <<>> ELSE <<naming[1].str>>

\* C25: the title field has two lines.  The first is titleWhenNegative if
\* the value is < 0 and titleWhenNegative is a non-empty string, else the
\* title if it is a non-empty string, else the label of the first concept
\* of the dataset whose tag is the first bare tag of the node that names a
\* concept, else the id.  The second is the value if it is > 0, and the
\* absolute value in parentheses otherwise.
C25_TitleHasTwoLines ==
  ntTitle # <<>> =>
    LET n == ntNode[1]
        tag == FirstNamingTag(n, ntConcepts)
        first ==
          IF ntValue < 0 /\ "titleWhenNegative" \in DOMAIN n
               /\ n.titleWhenNegative # ""
          THEN n.titleWhenNegative
          ELSE IF "title" \in DOMAIN n /\ n.title # "" THEN n.title
          ELSE IF tag # <<>>
               THEN ntConcepts[CHOOSE c \in DOMAIN ntConcepts :
                      /\ ntConcepts[c].tag = tag[1]
                      /\ \A d \in DOMAIN ntConcepts :
                           ntConcepts[d].tag = tag[1] => c <= d].label
               ELSE n.id
        second ==
          IF ntValue > 0 THEN AmountString(ntValue)
          ELSE <<"(">> \o AmountString(0 - ntValue) \o <<")">>
    IN  ntTitle[1] = <<first, "\n">> \o second

\* a negative node with both titles got its title
C25_Witness ==
  /\ ntTitle # <<>>
  /\ ntValue < 0
  /\ "titleWhenNegative" \in DOMAIN ntNode[1]
  /\ Truthy(ntNode[1], "title")


-----------------------------------------------------------------------------
(* An override without links                                                *)

\* C26: merging a base template with an override that declares no links
\* returns the link list that merging the base with no override returns.
C26_LinklessOverrideKeepsLinks ==
  (mOnce # <<>> /\ mO # <<>> /\ mO[1].links = <<>>) =>
    mOnce[1].links = mergeIncomeSankeyTemplates(mT, <<>>).links


-----------------------------------------------------------------------------
(* Incoming flow                                                            *)

\* C27: in a returned graph, for every output node, the values of the
\* emitted links that arrive at the node sum to at most the absolute value
\* of the node.
C27_IncomingFlowConserved ==
  pc = "done" =>
    \A i \in DOMAIN nodes :
       FlowSum(links, "target", nodes[i].id) <= Abs(nodes[i].value)


-----------------------------------------------------------------------------
(* Source side and target side                                              *)

\* every entry of the pool is as it was, except those of the given concepts
SameExcept(before, after, names) ==
  \A name \in ((DOMAIN before) \cup (DOMAIN after)) \ names :
     Entry(after, name) = Entry(before, name)

\* C28: a call of the map callback changes the source-side pools only in
\* the entries backing the link's source basis, and only if the link
\* carries flow and its source node is kept and not unlimited; it changes
\* the target-side pools only in the entries backing the link's target
\* basis, and only if the link carries flow and its target node is kept.
\* What is deducted on one side leaves the other side as it was.
C28_InflowLeavesOutflowCapacity ==
  [][(pc = "links" /\ Len(mapped') = Len(mapped) + 1) =>
       LET l == NextLink
           out == mapped'[Len(mapped')]
           flows == out # Null /\ out.value # 0
           fromSource ==
             IF flows /\ l.source \in Ids(incomeSankeyNodes)
                  /\ ~IsUnlimited(TemplateOf(l.source))
             THEN TagNames(SourceTagsOf(l)) ELSE {}
           fromTarget ==
             IF flows /\ l.target \in Ids(incomeSankeyNodes)
             THEN TagNames(TargetTagsOf(l)) ELSE {}
       IN  /\ SameExcept(valuesByConceptSource, valuesByConceptSource',
                         fromSource)
           /\ SameExcept(valuesByConceptPriorSource,
                         valuesByConceptPriorSource', fromSource)
           /\ SameExcept(valuesByConceptTarget, valuesByConceptTarget',
                         fromTarget)
           /\ SameExcept(valuesByConceptPriorTarget,
                         valuesByConceptPriorTarget', fromTarget)
     ]_vars

\* a returned graph in which a node has received its whole value and has
\* sent its whole value on
C28_Witness ==
  /\ pc = "done"
  /\ \E i \in DOMAIN nodes :
       /\ nodes[i].value > 0
       /\ FlowSum(links, "target", nodes[i].id) = nodes[i].value
       /\ FlowSum(links, "source", nodes[i].id) = nodes[i].value


-----------------------------------------------------------------------------
(* A condition that names a node which is not in the output                 *)

\* the condition of link l names a node that is not an output node
ConditionOnAbsentNode(l) ==
  "condition" \in DOMAIN l /\ l.condition.concept \notin Ids(nodes)

\* C29: a link whose condition names a node that is not in the output node
\* list has its condition evaluated with the value 0: it is removed if the
\* condition is "positive" and emitted if the condition is "negative".
C29_ConditionOnAbsentNodeIsZero ==
  /\ (pc = "links" /\ Len(mapped) < Len(filteredLinks)
        /\ ConditionOnAbsentNode(NextLink)) => ThisStep.conditionValue = 0
  /\ pc \in {"links", "done"} =>
       \A k \in DOMAIN mapped :
          ConditionOnAbsentNode(filteredLinks[k]) =>
            IF filteredLinks[k].condition.type = "positive"
            THEN mapped[k] = Null
            ELSE mapped[k] # Null /\ MadeFrom(mapped[k], filteredLinks[k])

\* a returned graph for which the node named by two conditions resolved to
\* 0: the "positive" link was removed and the "negative" link was emitted
\* with flow
C29_Witness ==
  /\ pc = "done"
  /\ \E k, j \in DOMAIN mapped :
       /\ ConditionOnAbsentNode(filteredLinks[k])
       /\ ConditionOnAbsentNode(filteredLinks[j])
       /\ filteredLinks[k].condition.concept = filteredLinks[j].condition.concept
       /\ filteredLinks[k].condition.concept
            \in Ids(incomeSankeyTemplate.nodes)
       /\ filteredLinks[k].condition.type = "positive"
       /\ filteredLinks[j].condition.type = "negative"
       /\ mapped[k] = Null
       /\ mapped[j] # Null
       /\ mapped[j].value > 0


-----------------------------------------------------------------------------
(* Fact values that do not parse: a call on a dataset that holds such a     *)
(* fact, then a call on the same dataset without the fact.                  *)

\* a value string that Number.parseFloat reads as NaN
UnparsableValue == <<"N", "/", "A">>

\* the concepts these datasets report
ParseTags ==
  {Revenue, GrossProfit, CostsAndExpenses, OperatingExpenses, InterestExpense,
   InvestmentIncomeInterest, Cash}

\* the other periods of these datasets: none, or an earlier period whose
\* cash does not parse
ParseOtherPeriods ==
  {<<>>,
   <<[id |-> "2022-FY", end_date |-> "2022-12-31",
      facts |-> <<[concept |-> Cash, value |-> UnparsableValue]>>]>>}

\* the fact at position f of period p has a value that does not parse
IsUnparsableFact(response, p, f) ==
  response.periods[p].facts[f].value = UnparsableValue

HasUnparsableFact(response) ==
  \E p \in DOMAIN response.periods :
     \E f \in DOMAIN response.periods[p].facts : IsUnparsableFact(response, p, f)

\* the sequence s without its element at position i
RemoveAt(s, i) == SubSeq(s, 1, i - 1) \o SubSeq(s, i + 1, Len(s))

\* the dataset without the fact at position f of period p
WithoutFact(response, p, f) ==
  [response EXCEPT !.periods[p].facts = RemoveAt(@, f)]

ParseInit ==
  /\ pc = "start"
  /\ \E S \in {T \in TagSets : T \subseteq ParseTags},
        other \in ParseOtherPeriods :
       \E f \in [S -> FactValues \cup {UnparsableValue}] :
          companyFactsResponse =
            [periods |-> <<CurrentPeriod(FactList(f))>> \o other]
  /\ HasUnparsableFact(companyFactsResponse)
  /\ periodId \in PeriodIds
  /\ incomeSankeyTemplateOverride \in OverrideTemplates \ {<<SwapOverride>>}
  /\ priorPeriod = <<>>
  /\ incomeSankeyTemplate = [nodes |-> <<>>, links |-> <<>>]
  /\ valuesByConceptSource = EmptyPool
  /\ valuesByConceptTarget = EmptyPool
  /\ valuesByConceptPriorSource = EmptyPool
  /\ valuesByConceptPriorTarget = EmptyPool
  /\ incomeSankeyNodes = <<>>
  /\ nodeValues = <<>>
  /\ nodes = <<>>
  /\ filteredLinks = <<>>
  /\ mapped = <<>>
  /\ links = <<>>
  /\ MergeIdle
  /\ PriorIdle
  /\ ModuleIdle
  /\ TitleIdle

\* the call has ended and the caller calls again with the same period id and
\* override, on the dataset without one of its unparsable facts
CallWithoutFact ==
  /\ pc \in {"done", "thrown"}
  /\ calls = <<>>
  /\ calls' = <<[companyFactsResponse |-> companyFactsResponse,
                 periodId |-> periodId,
                 incomeSankeyTemplateOverride |-> incomeSankeyTemplateOverride,
                 outcome |-> Outcome]>>
  /\ \E p \in DOMAIN companyFactsResponse.periods :
       \E f \in DOMAIN companyFactsResponse.periods[p].facts :
          /\ IsUnparsableFact(companyFactsResponse, p, f)
          /\ companyFactsResponse' = WithoutFact(companyFactsResponse, p, f)
  /\ pc' = "start"
  /\ priorPeriod' = <<>>
  /\ incomeSankeyTemplate' = [nodes |-> <<>>, links |-> <<>>]
  /\ valuesByConceptSource' = EmptyPool
  /\ valuesByConceptTarget' = EmptyPool
  /\ valuesByConceptPriorSource' = EmptyPool
  /\ valuesByConceptPriorTarget' = EmptyPool
  /\ incomeSankeyNodes' = <<>>
  /\ nodeValues' = <<>>
  /\ nodes' = <<>>
  /\ filteredLinks' = <<>>
  /\ mapped' = <<>>
  /\ links' = <<>>
  /\ UNCHANGED <<periodId, incomeSankeyTemplateOverride,
                 moduleDefaultTemplate, mergeVars, priorVars, titleVars>>

ParseNext ==
  Throw \/ BuildIndex \/ ResolveNodes \/ ProcessLink \/ Return
    \/ CallWithoutFact

ParseSpec == ParseInit /\ [][ParseNext]_vars

\* C30: on datasets that report each concept at most once in a period, the
\* call on the dataset without an unparsable fact ends as the call on the
\* dataset with it: the same nodes with the same values and the same links
\* with the same values; every emitted node value is a number other than
\* not-a-number and every emitted link value is a number >= 0.
C30_UnparsableIsMissing ==
  /\ (calls # <<>> /\ pc \in {"done", "thrown"}) => Outcome = calls[1].outcome
  /\ pc = "done" =>
       /\ \A i \in DOMAIN nodes : nodes[i].value \in Int
       /\ \A i \in DOMAIN links : links[i].value \in Nat

\* the second call has returned a graph with flow, on a dataset whose
\* requested period went without a fact that the first call was given
C30_Witness ==
  /\ pc = "done"
  /\ calls # <<>>
  /\ \E i \in DOMAIN links : links[i].value > 0
  /\ Len(companyFactsResponse.periods[1].facts)
       < Len(calls[1].companyFactsResponse.periods[1].facts)
  /\ companyFactsResponse.periods[1].id = periodId

=============================================================================
